---- MODULE Spec2Model ----
(***************************************************************************)
(* Shraddha Homeo Clinic patient manager (src/main.py).                    *)
(*                                                                         *)
(* Text values are sequences of one-character strings.  Ten               *)
(* specifications share the variables:                                     *)
(*   SpecCodec     the case-number codec as a pure function,               *)
(*   Spec          the application: store, forms, lists, exports,          *)
(*   SpecStore     the application restricted to the intake operations     *)
(*                 and the search list, with more case-number inputs,      *)
(*   SpecComposer  generate_patient_pdf called directly,                   *)
(*   SpecTemplate  ReportLabTemplate.build called with any callbacks,      *)
(*   SpecFetch     exports while another instance of the application       *)
(*                 deletes rows of the same database file,                 *)
(*   SpecCalls     the saving methods called whatever the buttons show,    *)
(*   SpecPaging    the all-records list over a store of several pages,     *)
(*   SpecSearch    patients looked up by the case number shown for them,   *)
(*   SpecBackup    backup_database at any second of the wall clock.        *)
(***************************************************************************)
EXTENDS Integers, Sequences, FiniteSets, TLC

\* ------------------------------------------------------------------------
\* Bounds of the model
\* ------------------------------------------------------------------------

\* longest text fed to the codec in SpecCodec
MaxLen == 6

\* patients inserted in one run of the application
MaxPatients == 2

\* visits inserted in one run of the application
MaxVisits == 2

\* longest visit list handed to the composer in SpecComposer
MaxVisitRecords == 3

\* most patient rows the database file holds at start-up in SpecPaging
MaxRecords == 61

\* the seconds of the wall clock in SpecBackup: 1..MaxTime
MaxTime == 12

\* pages a story can run over beyond its forced page breaks
MaxOverflow == 2

\* ------------------------------------------------------------------------
\* Program constants
\* ------------------------------------------------------------------------

CASE_NO_PADDING_SIZE == 5

RECORDS_PER_PAGE == 30

\* backup_database keeps backup_files[-10:]
BACKUPS_KEPT == 10

\* Python's None where the model needs it as a text value
None == <<"<None>">>

\* ------------------------------------------------------------------------
\* Characters and text
\* ------------------------------------------------------------------------

\* [0-9]; the model's alphabet is ASCII, where \d and [0-9] coincide
Digits == {"0", "1", "2", "3", "4", "5", "6", "7", "8", "9"}

\* what str.strip() removes at both ends
Whitespace == {" ", "\n", "\t"}

\* code points, for SQLite's BINARY collation (memcmp of the text)
Code(c) ==
  CASE c = "\t" -> 9
    [] c = "\n" -> 10
    [] c = " " -> 32
    [] c = "-" -> 45
    [] c = "0" -> 48
    [] c = "1" -> 49
    [] c = "2" -> 50
    [] c = "3" -> 51
    [] c = "4" -> 52
    [] c = "5" -> 53
    [] c = "6" -> 54
    [] c = "7" -> 55
    [] c = "8" -> 56
    [] c = "9" -> 57
    [] c = "T" -> 84
    [] c = "a" -> 97
    [] c = "b" -> 98
    [] OTHER -> 127

\* the character of a digit's value
DigitChar(v) == CHOOSE c \in Digits : Code(c) - 48 = v

\* the number a text of digits denotes
RECURSIVE NumValue(_)
NumValue(d) ==
  IF d = <<>> THEN 0
  ELSE 10 * NumValue(SubSeq(d, 1, Len(d) - 1)) + (Code(d[Len(d)]) - 48)

\* str(n) of a natural number
RECURSIVE DecimalRepr(_)
DecimalRepr(n) ==
  IF n < 10 THEN <<DigitChar(n)>>
  ELSE Append(DecimalRepr(n \div 10), DigitChar(n % 10))

\* the characters the codec inputs are drawn from
Alphabet == {"0", "1", "a", " "}

RECURSIVE TextsOfLen(_)
TextsOfLen(n) ==
  IF n = 0 THEN {<<>>}
  ELSE {Append(s, c) : s \in TextsOfLen(n - 1), c \in Alphabet}

TextsUpTo(n) == UNION {TextsOfLen(k) : k \in 0..n}

\* a case number of the older paper records, typed as it is
LegacyTexts == {<<"T", "1", "2">>}

\* every character a text of the model is made of
Chars == Alphabet \cup Digits \cup Whitespace \cup {"a", "b", "T", "-"}

\* str.lstrip(chars)
RECURSIVE lstrip(_, _)
lstrip(s, chars) ==
  IF s # <<>> /\ Head(s) \in chars THEN lstrip(Tail(s), chars) ELSE s

\* str.rstrip(chars)
RECURSIVE rstrip(_, _)
rstrip(s, chars) ==
  IF s # <<>> /\ s[Len(s)] \in chars
  THEN rstrip(SubSeq(s, 1, Len(s) - 1), chars)
  ELSE s

\* str.strip()
strip(s) == rstrip(lstrip(s, Whitespace), Whitespace)

\* the substitution with the pattern [^1-9]: zeros go as well
re_sub_keeping_nonzero(s) == SelectSeq(s, LAMBDA c : c \in Digits \ {"0"})

\* re.sub(r'[^0-9]', '', content)
RECURSIVE re_sub_non_digits(_)
re_sub_non_digits(s) ==
  IF s = <<>> THEN <<>>
  ELSE IF Head(s) \in Digits
       THEN <<Head(s)>> \o re_sub_non_digits(Tail(s))
       ELSE re_sub_non_digits(Tail(s))

\* zfill with the width taken one short
zfill_one_short(s, width) ==
  IF Len(s) >= width - 1 THEN s
  ELSE [i \in 1..(width - 1) |->
          IF i <= width - 1 - Len(s) THEN "0" ELSE s[i - (width - 1 - Len(s))]]

\* a fill that also cuts a longer string down to its last width characters
zfill_truncating(s, width) ==
  [i \in 1..width |->
     IF i <= width - Len(s) THEN "0" ELSE s[Len(s) - width + i]]

\* str.zfill(width) on a string without a sign
RECURSIVE zfill(_, _)
zfill(s, width) ==
  IF Len(s) >= width THEN s ELSE zfill(<<"0">> \o s, width)

\* the entry_case_no branch with one zero put before the filled digits
encode_one_more_zero(text) ==
  LET content == strip(text)
      numeric_part == re_sub_non_digits(content)
  IN IF content # <<>> /\ numeric_part # <<>>
     THEN <<"0">> \o zfill(numeric_part, CASE_NO_PADDING_SIZE)
     ELSE content

\* the entry_case_no branch filling the content it was given, letters kept
encode_keeping_letters(text) ==
  LET content == strip(text)
      numeric_part == re_sub_non_digits(content)
  IN IF content # <<>> /\ numeric_part # <<>>
     THEN zfill(content, CASE_NO_PADDING_SIZE)
     ELSE content

\* the entry_case_no branch giving no value when no digit is found
encode_none_without_digits(text) ==
  LET content == strip(text)
      numeric_part == re_sub_non_digits(content)
  IN IF content # <<>> /\ numeric_part # <<>>
     THEN zfill(numeric_part, CASE_NO_PADDING_SIZE)
     ELSE None

\* get_patient_data, the entry_case_no branch: the widget's text to the
\* stored case_no
encode(text) ==
  LET content == strip(text)
      numeric_part == re_sub_non_digits(content)
  IN IF content # <<>> /\ numeric_part # <<>>
     THEN zfill(numeric_part, CASE_NO_PADDING_SIZE)
     ELSE content

\* the pattern without its end anchor: re.match(r'0+\d+', s)
re_match_unanchored(s) ==
  /\ Len(s) >= 2
  /\ s[1] = "0"
  /\ s[2] \in Digits

\* re.match(r'0+\d+$', s): $ also matches before one trailing newline
re_match_padded(s) ==
  LET body == IF s # <<>> /\ s[Len(s)] = "\n"
              THEN {s, SubSeq(s, 1, Len(s) - 1)}
              ELSE {s}
  IN \E b \in body :
       /\ Len(b) >= 2
       /\ b[1] = "0"
       /\ \A i \in 1..Len(b) : b[i] \in Digits

\* _unpad_case_no without the '0' it returns for an all-zero value
unpad_no_zero_case(case_no_value) ==
  IF case_no_value = None THEN <<>>
  ELSE IF re_match_padded(case_no_value)
       THEN lstrip(case_no_value, {"0"})
       ELSE case_no_value

\* _unpad_case_no
unpad_case_no(case_no_value) ==
  IF case_no_value = None THEN <<>>
  ELSE IF re_match_padded(case_no_value)
       THEN LET unpadded == lstrip(case_no_value, {"0"})
            IN IF unpadded # <<>> THEN unpadded ELSE <<"0">>
       ELSE case_no_value

\* ------------------------------------------------------------------------
\* The application: columns, form keys, inputs
\* ------------------------------------------------------------------------

\* the patients table's columns after id, in the order of the INSERT
Columns ==
  <<"date", "case_no", "name", "age", "address", "gender", "co",
    "onset_duration", "habit", "diet", "appetite", "bowel",
    "family_history", "past_history", "mind", "sleep", "desire",
    "aversion", "wt", "bp", "pulse", "temp", "systemic_exam",
    "modalities_pe", "diagnosis", "treatment">>

\* intake_keys of get_patient_data, column_map of edit_record
IntakeKeys ==
  <<"entry_date", "entry_case_no", "entry_name", "entry_age",
    "entry_address", "combo_sex", "entry_co", "entry_onset_duration",
    "entry_habit", "entry_diet", "entry_appetite", "entry_bowel",
    "entry_family_history", "entry_past_history", "entry_mind",
    "entry_sleep", "entry_desire", "entry_aversion", "entry_wt",
    "entry_bp", "entry_pulse", "entry_temp", "entry_systemic_exam",
    "entry_modalities_pe", "entry_diagnosis", "entry_treatment">>

Range(f) == {f[i] : i \in DOMAIN f}

IndexOf(seq, x) == CHOOSE i \in DOMAIN seq : seq[i] = x

\* "%02d"
TwoDigits(n) == <<DigitChar(n \div 10), DigitChar(n % 10)>>

\* strftime("%d-%m-%Y")
FormatDate(d, m, y) ==
  TwoDigits(d) \o <<"-">> \o TwoDigits(m) \o <<"-">>
    \o TwoDigits(y \div 100) \o TwoDigits(y % 100)

\* datetime.today().strftime("%d-%m-%Y")
Today == FormatDate(3, 11, 2026)

\* texts typed into the case-number entry in Spec
CaseTexts == {<<>>, <<"7">>}

\* texts typed into the case-number entry in SpecStore
StoreCaseTexts ==
  { <<>>, <<"7">>, <<" ", "a">>,
    <<"1", "1", "1", "1", "1">>,
    <<"1", "0", "0", "0", "0", "0">> }

\* texts typed into the case-number entry in SpecCalls
CallCaseTexts == {<<>>, <<"7">>, <<"1">>}

\* texts typed into the name entry
NameTexts == {<<>>, <<"b">>}

\* texts typed into the search entry
Queries == {<<>>, <<"7">>}

\* texts typed into the follow-up form: visit date, complaints, new
\* modalities, treatment
FollowupInputs ==
  { <<d, <<>>, <<>>, t>> :
      d \in {<<>>, FormatDate(2, 1, 2024), FormatDate(1, 2, 2024)},
      t \in {<<>>, <<"a">>} }

\* memcmp order of two texts: SQLite's BINARY collation
RECURSIVE LexLess(_, _)
LexLess(s, t) ==
  IF t = <<>> THEN FALSE
  ELSE IF s = <<>> THEN TRUE
  ELSE IF Head(s) # Head(t) THEN Code(Head(s)) < Code(Head(t))
  ELSE LexLess(Tail(s), Tail(t))

LexLeq(s, t) == s = t \/ LexLess(s, t)

\* the orders in which SELECT ... ORDER BY key ASC may return the rows ids,
\* key giving the column's text for each id: every arrangement with the
\* keys ascending (ties in any order)
RECURSIVE OrderByAsc(_, _)
OrderByAsc(ids, key) ==
  IF ids = {} THEN {<<>>}
  ELSE UNION { { <<m>> \o o : o \in OrderByAsc(ids \ {m}, key) } :
               m \in {x \in ids : \A y \in ids : LexLeq(key[x], key[y])} }

\* ... ORDER BY key DESC
RECURSIVE OrderByDesc(_, _)
OrderByDesc(ids, key) ==
  IF ids = {} THEN {<<>>}
  ELSE UNION { { <<m>> \o o : o \in OrderByDesc(ids \ {m}, key) } :
               m \in {x \in ids : \A y \in ids : LexLeq(key[y], key[x])} }

\* text LIKE 'query%': the pattern without its leading wildcard
like_from_start(text, query) ==
  /\ Len(query) <= Len(text)
  /\ SubSeq(text, 1, Len(query)) = query

\* text LIKE '%query%' for texts without wildcard characters
Like(text, query) ==
  \E i \in 1..(Len(text) + 1) :
    /\ i + Len(query) - 1 <= Len(text)
    /\ SubSeq(text, i, i + Len(query) - 1) = query

\* ------------------------------------------------------------------------
\* The report composer: generate_patient_pdf
\* ------------------------------------------------------------------------

\* a message box: kind is "error" or "info"
Box(kind, title) == [kind |-> kind, title |-> title]

\* the placeholder 'N/A'
NA == <<"N", "/", "A">>

\* str(x)
Str(x) == IF x = None THEN <<"N", "o", "n", "e">> ELSE x

\* x or 'N/A'
OrNA(x) == IF x = None \/ x = <<>> THEN NA ELSE x

\* text.replace('\n', '<br/>')
RECURSIVE ReplaceNewlines(_)
ReplaceNewlines(text) ==
  IF text = <<>> THEN <<>>
  ELSE (IF Head(text) = "\n" THEN <<"<br/>">> ELSE <<Head(text)>>)
         \o ReplaceNewlines(Tail(text))

\* intake_data.get(key, default)
Get(d, key, default) == IF key \in DOMAIN d THEN d[key] ELSE default

\* flowables; text is a sequence of characters and literal markup
Paragraph(text, style) ==
  [t |-> "Paragraph", style |-> style, text |-> text, cells |-> <<>>, h |-> 0]

Spacer(h) ==
  [t |-> "Spacer", style |-> "", text |-> <<>>, cells |-> <<>>, h |-> h]

Table(cells) ==
  [t |-> "Table", style |-> "", text |-> <<>>, cells |-> cells, h |-> 0]

PageBreak ==
  [t |-> "PageBreak", style |-> "", text |-> <<>>, cells |-> <<>>, h |-> 0]

\* a table cell holding the string ''
EmptyCell ==
  [t |-> "str", style |-> "", text |-> <<>>, cells |-> <<>>, h |-> 0]

Label(text) == Paragraph(<<"<b>", text, "</b>">>, "BODY_BOLD")

\* the heading of a section
SectionHeading(title) ==
  Paragraph(<<"<font color='#007f7f'>&#8226;</font> <b><u>", title,
              ":</u></b>">>, "H_SECTION")

\* add_bulleted_text_section with the placeholder left out
add_bulleted_text_section_blank(d, title, key) ==
  <<SectionHeading(title),
    Paragraph(ReplaceNewlines(Str(Get(d, key, <<>>))), "TEXT_BLOCK")>>

\* add_bulleted_text_section(title, key)
add_bulleted_text_section(d, title, key) ==
  <<SectionHeading(title),
    Paragraph(ReplaceNewlines(Str(OrNA(Get(d, key, None)))), "TEXT_BLOCK")>>

\* Paragraph(intake_data.get(key, 'N/A'), BODY)
RawCell(d, key) == Paragraph(Get(d, key, NA), "BODY")

\* Paragraph(str(intake_data.get(key, 'N/A') or 'N/A').replace(...), BODY)
TextCell(d, key) ==
  Paragraph(ReplaceNewlines(Str(OrNA(Get(d, key, NA)))), "BODY")

\* the keys whose value goes to Paragraph as it is
RawKeys == {"date", "age", "name", "gender", "address", "wt", "bp",
            "pulse", "temp"}

\* the flowables of the intake pages
IntakeStory(d) ==
  <<Spacer(15),
    Paragraph(<<"<b>PATIENT INTAKE RECORD:</b> <font color='#0a2859'>">>
                \o Str(Get(d, "name", NA)) \o <<"</font> (Case No: ">>
                \o Str(Get(d, "case_no", NA)) \o <<")">>, "H_TITLE"),
    Spacer(2),
    SectionHeading("Preliminary Data"),
    Table(<<<<Label("Date:"), RawCell(d, "date"),
              Label("Age:"), RawCell(d, "age")>>,
            <<Label("Name:"), RawCell(d, "name"),
              Label("Gender:"), RawCell(d, "gender")>>,
            <<Label("Address:"), RawCell(d, "address"),
              EmptyCell, EmptyCell>>>>),
    Spacer(5)>>
  \o add_bulleted_text_section(d, "Chief Complaints (C/O)", "co")
  \o add_bulleted_text_section(d, "Onset and Duration", "onset_duration")
  \o <<SectionHeading("Personal History"),
       Table(<<<<Label("Habit:"), TextCell(d, "habit"),
                 Label("Diet:"), TextCell(d, "diet")>>,
               <<Label("Appetite:"), TextCell(d, "appetite"),
                 Label("Bowel:"), TextCell(d, "bowel")>>>>),
       Spacer(5)>>
  \o add_bulleted_text_section(d, "Family History", "family_history")
  \o add_bulleted_text_section(d, "Past History", "past_history")
  \o <<SectionHeading("Homoeopathic Generalities"),
       Table(<<<<Label("Mind:"), TextCell(d, "mind"),
                 Label("Sleep:"), TextCell(d, "sleep")>>,
               <<Label("Desire:"), TextCell(d, "desire"),
                 Label("Aversion:"), TextCell(d, "aversion")>>>>),
       Spacer(5),
       SectionHeading("Physical Examination & Initial Treatment"),
       Table(<<<<Label("Wt:"), RawCell(d, "wt"),
                 Label("B.P.:"), RawCell(d, "bp")>>,
               <<Label("Pulse:"), RawCell(d, "pulse"),
                 Label("Temp:"), RawCell(d, "temp")>>>>),
       Spacer(5)>>
  \o add_bulleted_text_section(d, "Systemic Examination", "systemic_exam")
  \o add_bulleted_text_section(d, "Modalities (P.E.)", "modalities_pe")
  \o add_bulleted_text_section(d, "Diagnosis", "diagnosis")
  \o add_bulleted_text_section(d, "Initial Treatment", "treatment")

\* the block of the visit at index i (from 1) of visit_records
VisitBlock(i, visit) ==
  <<Paragraph(<<"Visit ">> \o DecimalRepr(i)
                \o <<": <font color='black'>">> \o Str(visit[1])
                \o <<"</font>">>, "H_VISIT"),
    Table(<<<<Label("Complaints/Changes:"),
              Paragraph(ReplaceNewlines(Str(OrNA(visit[2]))), "BODY")>>,
            <<Label("New Modalities:"),
              Paragraph(ReplaceNewlines(Str(OrNA(visit[3]))), "BODY")>>,
            <<Label("Treatment (Remedy/Dose):"),
              Paragraph(ReplaceNewlines(Str(OrNA(visit[4]))), "BODY")>>>>),
    Spacer(8)>>

\* the visit blocks with a page break forced before each one
RECURSIVE visit_blocks_with_breaks(_, _)
visit_blocks_with_breaks(visit_records, n) ==
  IF n = 0 THEN <<>>
  ELSE visit_blocks_with_breaks(visit_records, n - 1)
         \o <<PageBreak>> \o VisitBlock(n, visit_records[n])

\* the blocks of the first n visits, in the order of visit_records
RECURSIVE VisitBlocks(_, _)
VisitBlocks(visit_records, n) ==
  IF n = 0 THEN <<>>
  ELSE VisitBlocks(visit_records, n - 1) \o VisitBlock(n, visit_records[n])

\* the visit-history section emitted whatever the list holds
visit_history_unconditional(visit_records) ==
  <<PageBreak,
    Paragraph(<<"<u>VISIT HISTORY / FOLLOW-UPS</u>">>, "H_TITLE"),
    Spacer(25)>>
    \o (IF visit_records = None THEN <<>>
        ELSE VisitBlocks(visit_records, Len(visit_records)))

\* the visit-history section: nothing for an empty (or None) list
VisitHistory(visit_records) ==
  IF visit_records = None \/ visit_records = <<>> THEN <<>>
  ELSE <<PageBreak,
         Paragraph(<<"<u>VISIT HISTORY / FOLLOW-UPS</u>">>, "H_TITLE"),
         Spacer(25)>>
       \o VisitBlocks(visit_records, Len(visit_records))

\* assembling that goes on without an intake record
assembly_tolerates_none(intake_data) ==
  /\ intake_data # None
  /\ \E k \in RawKeys : Get(intake_data, k, NA) = None

\* whether assembling the story raises: intake_data is None, or a value
\* that is None goes to Paragraph as it is
AssemblyRaises(intake_data) ==
  \/ intake_data = None
  \/ \E k \in RawKeys : Get(intake_data, k, NA) = None

\* the list story that generate_patient_pdf assembles and hands to doc.build
Story(intake_data, visit_records) ==
  IntakeStory(intake_data) \o VisitHistory(visit_records)

\* how generate_patient_pdf(intake_data, visit_records, filename) ends and
\* the message boxes it shows; build_ok says whether doc.build can lay the
\* story out and write the file.
\* result: "True", "False", or "raised" when an exception leaves the call
generate_patient_pdf(intake_data, build_ok) ==
  IF AssemblyRaises(intake_data)
  THEN [result |-> "raised", boxes |-> <<>>]
  ELSE IF build_ok
  THEN [result |-> "True", boxes |-> <<>>]
  ELSE [result |-> "False", boxes |-> <<Box("error", "PDF Build Error")>>]

\* the cause text that the outcome of a generate_patient_pdf call carries to
\* its caller: an exception carries its message; the booleans True and
\* False carry none (the cause of a failed build goes to a message box)
CauseCarried(result) == IF result = "raised" THEN <<"e">> ELSE <<>>

\* whether the call left a file at the destination: doc.build writes it
\* when it succeeds
FileWritten(result) == result = "True"

\* ------------------------------------------------------------------------
\* State
\* ------------------------------------------------------------------------

\* ------------------------------------------------------------------------
\* The report template: header and footer of the pages
\* ------------------------------------------------------------------------

\* the clinic and practitioner details of the application
CLINIC_NAME ==
  <<"S", "h", "r", "a", "d", "h", "a", " ", "H", "o", "m", "o", "e", "o",
    " ", "C", "l", "i", "n", "i", "c">>

DOCTOR_NAME == "Dr. Ramesh Ramrao Mustare"

DOCTOR_DEGREE == "D.H.M.S., C.C.M.P.(C.C.H.)"

DOCTOR_REG_NO == "Reg. No: 20702"

ADDRESS_LINE1 == "Kamtha(BK), Tq Ardhapur, Dist Nanded, 431704"

CONTACT_INFO == "Contact: +91 9420911808 "

\* the document generate_patient_pdf creates: the attributes __init__ pops
\* from the keyword arguments and stores
ReportLabTemplate ==
  [DOCTOR_NAME |-> DOCTOR_NAME, DOCTOR_DEGREE |-> DOCTOR_DEGREE,
   CLINIC_NAME |-> CLINIC_NAME, DOCTOR_REG_NO |-> DOCTOR_REG_NO,
   ADDRESS_LINE1 |-> ADDRESS_LINE1, CONTACT_INFO |-> CONTACT_INFO]

\* str.upper() on the letters of the clinic's name
upper(text) ==
  [i \in DOMAIN text |->
     CASE text[i] = "a" -> "A" [] text[i] = "c" -> "C"
       [] text[i] = "d" -> "D" [] text[i] = "e" -> "E"
       [] text[i] = "h" -> "H" [] text[i] = "i" -> "I"
       [] text[i] = "l" -> "L" [] text[i] = "m" -> "M"
       [] text[i] = "n" -> "N" [] text[i] = "o" -> "O"
       [] text[i] = "r" -> "R"
       [] OTHER -> text[i]]

\* what _header_footer(canvas, doc) draws on the page canvas.getPageNumber():
\* the rows of the header table, each a tuple of cells, a cell the pieces of
\* its text, and the footer text
header_footer(page_number, doc) ==
  [header |->
     << << <<"<font size='20'><b>", upper(doc.CLINIC_NAME), "</b></font>">>,
           <<"">> >>,
        << <<"<b>", doc.DOCTOR_NAME, "</b>, ", doc.DOCTOR_DEGREE>>,
           <<"">> >>,
        << <<doc.ADDRESS_LINE1>>, <<doc.DOCTOR_REG_NO>> >>,
        << <<doc.CONTACT_INFO>>, <<"">> >> >>,
   footer |-> <<"P", "a", "g", "e", " ">> \o DecimalRepr(page_number)]

\* page callbacks a caller of build can pass: the template's own, or one
\* that draws nothing
Callbacks == {"_header_footer", "draw_nothing"}

OnPage(callback, page_number, doc) ==
  IF callback = "_header_footer" THEN header_footer(page_number, doc)
  ELSE [header |-> <<>>, footer |-> <<>>]

\* the numbers of pages a story can fill: one more than its forced page
\* breaks, and up to MaxOverflow more where blocks run over the page end
PageCounts(flowables) ==
  LET forced ==
        Cardinality({k \in DOMAIN flowables : flowables[k].t = "PageBreak"})
  IN (forced + 1)..(forced + 1 + MaxOverflow)

\* SimpleDocTemplate.build: the first page is decorated by onFirstPage, every
\* later page by onLaterPages, each once, with the canvas numbering the pages
\* from 1. The result is the set of page sequences the layout can give.
SimpleDocTemplate_build(self, flowables, onFirstPage, onLaterPages) ==
  { [k \in 1..n |->
       OnPage(IF k = 1 THEN onFirstPage ELSE onLaterPages, k, self)] :
    n \in PageCounts(flowables) }

build_keeping_callbacks(self, flowables, onFirstPage, onLaterPages) ==
  SimpleDocTemplate_build(self, flowables, onFirstPage, onLaterPages)

\* ReportLabTemplate.build(flowables, onFirstPage, onLaterPages)
build(self, flowables, onFirstPage, onLaterPages) ==
  SimpleDocTemplate_build(self, flowables, "_header_footer", "_header_footer")

VARIABLES
  c_pc,      \* codec run: "input", "encoded", "decoded", "done"
  c_raw,     \* the text given to the codec
  c_enc,     \* encode(c_raw)
  c_dec,     \* decode(c_enc)
  c_reenc,   \* encode(c_dec)
  c_enc2,    \* encode(c_enc)
  c_unpad,   \* decode(c_raw), c_raw taken as a stored value
  frame,               \* the frame show_frame packed last
  patients,            \* table patients: id -> row (column -> text)
  last_patient_id,     \* AUTOINCREMENT sequence of patients
  visits,              \* table visits: visit_id -> row
  last_visit_id,       \* AUTOINCREMENT sequence of visits
  current_patient_id,  \* self.current_patient_id, 0 for None
  entries,             \* the intake form: key -> widget text
  buttons,             \* btn_save_new, btn_update_intake, btn_save_followup
  tree_search,         \* rows of the search list
  tree_all,            \* rows of the all-records list
  paging,              \* current_page, total_records, total_pages, buttons
  tree_history,        \* rows of the visit-history list
  details_window,      \* the visit-details window the last call opened
  default_filename,    \* initialfile of the save dialog the last call opened
  p_intake,            \* intake_data of the last call's generate_patient_pdf
  p_visits,            \* visit_records of the last call's generate_patient_pdf
  pdf_result,          \* how the last call's generate_patient_pdf ended
  msg,                 \* message boxes the last handler call showed
  case_input,          \* history: id -> the entry text its case_no came from
  p_pc,                \* composer run: "idle", "input", "done"
  p_pages,             \* the pages the last ReportLabTemplate.build drew
  backup_files,        \* timestamps of the patients_backup_*.db files
  backup_file          \* timestamp of the last backup_file written, 0: none

codec_vars == <<c_pc, c_raw, c_enc, c_dec, c_reenc, c_enc2, c_unpad>>

db_vars == <<patients, last_patient_id, visits, last_visit_id, case_input>>

form_vars == <<current_patient_id, entries, buttons, tree_history>>

list_vars == <<tree_search, tree_all, paging>>

out_vars ==
  <<details_window, default_filename, p_intake, p_visits, pdf_result>>

app_vars == <<frame, db_vars, form_vars, list_vars, out_vars, msg>>

composer_vars == <<p_pc, p_pages>>

backup_vars == <<backup_files, backup_file>>

vars == <<codec_vars, app_vars, composer_vars, backup_vars>>

\* the flowables the last call's generate_patient_pdf handed to doc.build
story ==
  IF pdf_result \in {"True", "False"} THEN Story(p_intake, p_visits)
  ELSE <<>>

\* ------------------------------------------------------------------------
\* The application: helpers of the handlers
\* ------------------------------------------------------------------------

\* validate_required_fields
validate_required_fields(E) ==
  /\ strip(E["entry_name"]) # <<>>
  /\ strip(E["entry_case_no"]) # <<>>

\* get_patient_data with the case number stripped like every other entry
get_patient_data_all_stripped(E) ==
  [c \in Range(Columns) |-> strip(E[IntakeKeys[IndexOf(Columns, c)]])]

\* get_patient_data: the row the form's texts make
get_patient_data(E) ==
  [c \in Range(Columns) |->
     LET key == IntakeKeys[IndexOf(Columns, c)]
     IN IF key = "entry_case_no" THEN encode(E[key]) ELSE strip(E[key])]

\* get_followup_data: the Entry's text as it is, the Text widgets' stripped
get_followup_data(typed) ==
  <<typed[1], strip(typed[2]), strip(typed[3]), strip(typed[4])>>

\* the form after clear_entries
ClearedEntries ==
  [k \in Range(IntakeKeys) |-> IF k = "entry_date" THEN Today ELSE <<>>]

\* the buttons after reset_to_new_patient_mode
NewPatientButtons ==
  [btn_save_new |-> TRUE, btn_update_intake |-> FALSE,
   btn_save_followup |-> "disabled"]

\* switch_to_edit_mode without its grid_remove of btn_save_new
edit_buttons_keeping_save_new ==
  [btn_save_new |-> TRUE, btn_update_intake |-> TRUE,
   btn_save_followup |-> "normal"]

\* the buttons after switch_to_edit_mode
EditButtons ==
  [btn_save_new |-> FALSE, btn_update_intake |-> TRUE,
   btn_save_followup |-> "normal"]

\* text[:50] + '...' if len(text) > 50 else text
Summary(text) ==
  IF Len(text) > 50 THEN SubSeq(text, 1, 50) \o <<".", ".", ".">> ELSE text

\* the visits of one patient
VisitsOf(V, pid) == {v \in DOMAIN V : V[v].patient_id = pid}

\* populate_visit_history: the lists the history tree may be filled with
HistoryRows(V, pid) ==
  { [i \in DOMAIN o |->
       [iid |-> o[i],
        values |-> <<V[o[i]].visit_date, Summary(V[o[i]].complaints),
                     Summary(V[o[i]].treatment)>>]] :
      o \in OrderByDesc(VisitsOf(V, pid),
                       [v \in DOMAIN V |-> V[v].visit_date]) }

\* a row of the search and all-records lists: the case number unpadded
ListRow(P, id) ==
  [iid |-> id,
   values |-> <<unpad_case_no(P[id]["case_no"]), P[id]["name"],
                P[id]["date"], P[id]["age"], P[id]["gender"]>>]

\* a function without one argument
Without(f, x) == [y \in DOMAIN f \ {x} |-> f[y]]

\* a sequence without its i-th element
RemoveAt(seq, i) == SubSeq(seq, 1, i - 1) \o SubSeq(seq, i + 1, Len(seq))

\* edit_record(patient_id) on the store P, V, after the message boxes shown
edit_record(P, V, patient_id, shown) ==
  IF patient_id \notin DOMAIN P
  THEN /\ msg' = Append(shown, Box("error", "Error"))
       /\ UNCHANGED <<frame, current_patient_id, entries, buttons,
                      tree_history>>
  ELSE /\ current_patient_id' = patient_id
       /\ buttons' = EditButtons
       /\ entries' =
            [k \in Range(IntakeKeys) |->
               LET value == P[patient_id][Columns[IndexOf(IntakeKeys, k)]]
               IN IF k = "entry_case_no" THEN unpad_case_no(value)
                  ELSE value]
       /\ tree_history' \in HistoryRows(V, patient_id)
       /\ frame' = "add"
       /\ msg' = shown

\* load_all_records without its clamp of page_number to total_pages
load_all_records_unclamped(P, page_number) ==
  LET total_records == Cardinality(DOMAIN P)
      total_pages == (total_records + RECORDS_PER_PAGE - 1)
                       \div RECORDS_PER_PAGE
      page == IF page_number < 1 THEN 1 ELSE page_number
      offset == (page - 1) * RECORDS_PER_PAGE
      last == IF offset + RECORDS_PER_PAGE < total_records
              THEN offset + RECORDS_PER_PAGE
              ELSE IF offset < total_records THEN total_records ELSE offset
  IN IF total_records = 0
     THEN /\ paging' = [current_page |-> 1, total_records |-> 0,
                        total_pages |-> 0, btn_prev |-> "disabled",
                        btn_next |-> "disabled"]
          /\ tree_all' = <<>>
     ELSE /\ paging' =
               [current_page |-> page, total_records |-> total_records,
                total_pages |-> total_pages,
                btn_prev |-> IF page > 1 THEN "normal" ELSE "disabled",
                btn_next |-> IF page < total_pages THEN "normal"
                             ELSE "disabled"]
          /\ \E o \in OrderByAsc(DOMAIN P,
                                [id \in DOMAIN P |-> P[id]["case_no"]]) :
               tree_all' = [i \in 1..(last - offset) |->
                              ListRow(P, o[offset + i])]

\* load_all_records(page_number) on the store P
load_all_records(P, page_number) ==
  LET total_records == Cardinality(DOMAIN P)
      total_pages == (total_records + RECORDS_PER_PAGE - 1)
                       \div RECORDS_PER_PAGE
      page == IF page_number < 1 THEN 1
              ELSE IF page_number > total_pages THEN total_pages
              ELSE page_number
      offset == (page - 1) * RECORDS_PER_PAGE
      last == IF offset + RECORDS_PER_PAGE < total_records
              THEN offset + RECORDS_PER_PAGE ELSE total_records
  IN IF total_records = 0
     THEN /\ paging' = [current_page |-> 1, total_records |-> 0,
                        total_pages |-> 0, btn_prev |-> "disabled",
                        btn_next |-> "disabled"]
          /\ tree_all' = <<>>
     ELSE /\ paging' =
               [current_page |-> page, total_records |-> total_records,
                total_pages |-> total_pages,
                btn_prev |-> IF page > 1 THEN "normal" ELSE "disabled",
                btn_next |-> IF page < total_pages THEN "normal"
                             ELSE "disabled"]
          /\ \E o \in OrderByAsc(DOMAIN P,
                                [id \in DOMAIN P |-> P[id]["case_no"]]) :
               tree_all' = [i \in 1..(last - offset) |->
                              ListRow(P, o[offset + i])]

\* the second datetime.now() gives while the application's handlers run:
\* as with Today, the clock stands still in the specifications of the
\* handlers; SpecBackup lets it move
Now == 1

\* backup_database, the copy done: the files of BACKUP_FOLDER after the
\* file named by timestamp is written and all but the last BACKUPS_KEPT of
\* the sorted names are removed (names of one width sort as their numbers)
backup_database(files, timestamp) ==
  LET listed == files \cup {timestamp}
  IN IF Cardinality(listed) > BACKUPS_KEPT
     THEN {f \in listed : Cardinality({g \in listed : g > f}) < BACKUPS_KEPT}
     ELSE listed

\* backup_database(silent=True) at the end of a handler
BackupSilently ==
  /\ backup_files' = backup_database(backup_files, Now)
  /\ backup_file' = Now

\* ------------------------------------------------------------------------
\* The application: handlers
\* ------------------------------------------------------------------------

\* no visit-details window
NoWindow ==
  [open |-> FALSE, patient_name |-> <<>>, case_no |-> <<>>,
   visit_date |-> <<>>]

\* the handler opens no save dialog and does not call the composer
NoReport ==
  /\ default_filename' = <<>>
  /\ p_intake' = None
  /\ p_visits' = None
  /\ pdf_result' = "none"

\* the handler shows no window and no report
NoOutput ==
  /\ details_window' = NoWindow
  /\ NoReport

\* typing into the case-number entry
TypeCaseNo(text) ==
  /\ frame = "add"
  /\ entries' = [entries EXCEPT !["entry_case_no"] = text]
  /\ msg' = <<>>
  /\ NoOutput
  /\ UNCHANGED <<frame, db_vars, current_patient_id, buttons, tree_history,
                 list_vars, codec_vars, composer_vars,
                 backup_vars>>

\* typing into the name entry
TypeName(text) ==
  /\ frame = "add"
  /\ entries' = [entries EXCEPT !["entry_name"] = text]
  /\ msg' = <<>>
  /\ NoOutput
  /\ UNCHANGED <<frame, db_vars, current_patient_id, buttons, tree_history,
                 list_vars, codec_vars, composer_vars,
                 backup_vars>>

\* home page, "Add New Patient": clear_entries, show_frame(add_frame)
AddNewPatient ==
  /\ frame = "home"
  /\ entries' = ClearedEntries
  /\ tree_history' = IF current_patient_id = 0 THEN <<>> ELSE tree_history
  /\ current_patient_id' = 0
  /\ buttons' = NewPatientButtons
  /\ frame' = "add"
  /\ msg' = <<>>
  /\ NoOutput
  /\ UNCHANGED <<db_vars, list_vars, codec_vars, composer_vars,
                 backup_vars>>

\* home page, "Search Patient"
ShowSearch ==
  /\ frame = "home"
  /\ frame' = "search"
  /\ msg' = <<>>
  /\ NoOutput
  /\ UNCHANGED <<db_vars, form_vars, list_vars, codec_vars, composer_vars,
                 backup_vars>>

\* home page, "View All Records": load_all_records(1), show_frame
ViewAllRecords ==
  /\ frame = "home"
  /\ load_all_records(patients, 1)
  /\ frame' = "view_all"
  /\ msg' = <<>>
  /\ NoOutput
  /\ UNCHANGED <<db_vars, form_vars, tree_search, codec_vars, composer_vars,
                 backup_vars>>

\* "Back" on a page, and handle_escape
BackToHome ==
  /\ frame \in {"add", "search", "view_all"}
  /\ frame' = "home"
  /\ msg' = <<>>
  /\ NoOutput
  /\ UNCHANGED <<db_vars, form_vars, list_vars, codec_vars, composer_vars,
                 backup_vars>>

\* "< Previous Page"
PreviousPage ==
  /\ frame = "view_all"
  /\ paging.btn_prev = "normal"
  /\ load_all_records(patients, paging.current_page - 1)
  /\ msg' = <<>>
  /\ NoOutput
  /\ UNCHANGED <<frame, db_vars, form_vars, tree_search, codec_vars, composer_vars,
                 backup_vars>>

\* "Next Page >"
NextPage ==
  /\ frame = "view_all"
  /\ paging.btn_next = "normal"
  /\ load_all_records(patients, paging.current_page + 1)
  /\ msg' = <<>>
  /\ NoOutput
  /\ UNCHANGED <<frame, db_vars, form_vars, tree_search, codec_vars, composer_vars,
                 backup_vars>>

\* save_patient
save_patient ==
  /\ frame = "add"
  /\ IF ~validate_required_fields(entries)
     THEN /\ msg' = <<Box("error", "Error")>>
          /\ UNCHANGED <<frame, db_vars, form_vars, backup_vars>>
     ELSE /\ last_patient_id < MaxPatients
          /\ LET new_patient_id == last_patient_id + 1
                 P == patients @@ (new_patient_id :> get_patient_data(entries))
             IN /\ patients' = P
                /\ last_patient_id' = new_patient_id
                /\ case_input' =
                     case_input @@ (new_patient_id :> entries["entry_case_no"])
                /\ edit_record(P, visits, new_patient_id,
                               <<Box("info", "Success")>>)
          /\ BackupSilently
          /\ UNCHANGED <<visits, last_visit_id>>
  /\ NoOutput
  /\ UNCHANGED <<list_vars, codec_vars, composer_vars>>

\* update_patient_intake with an UPDATE that has lost its WHERE id = ?
update_without_where ==
  /\ frame = "add"
  /\ IF ~validate_required_fields(entries)
     THEN /\ msg' = <<Box("error", "Error")>>
          /\ UNCHANGED <<db_vars, backup_vars>>
     ELSE IF current_patient_id = 0
     THEN /\ msg' = <<Box("error", "Error")>>
          /\ UNCHANGED <<db_vars, backup_vars>>
     ELSE /\ patients' = [id \in DOMAIN patients |-> get_patient_data(entries)]
          /\ case_input' = [id \in DOMAIN patients |-> entries["entry_case_no"]]
          /\ msg' = <<Box("info", "Success")>>
          /\ BackupSilently
          /\ UNCHANGED <<last_patient_id, visits, last_visit_id>>
  /\ NoOutput
  /\ UNCHANGED <<frame, form_vars, list_vars, codec_vars, composer_vars>>

\* update_patient_intake
update_patient_intake ==
  /\ frame = "add"
  /\ IF ~validate_required_fields(entries)
     THEN /\ msg' = <<Box("error", "Error")>>
          /\ UNCHANGED <<db_vars, backup_vars>>
     ELSE IF current_patient_id = 0
     THEN /\ msg' = <<Box("error", "Error")>>
          /\ UNCHANGED <<db_vars, backup_vars>>
     ELSE /\ IF current_patient_id \in DOMAIN patients
             THEN /\ patients' = [patients EXCEPT ![current_patient_id] =
                                    get_patient_data(entries)]
                  /\ case_input' = [case_input EXCEPT ![current_patient_id] =
                                      entries["entry_case_no"]]
             ELSE UNCHANGED <<patients, case_input>>
          /\ msg' = <<Box("info", "Success")>>
          /\ BackupSilently
          /\ UNCHANGED <<last_patient_id, visits, last_visit_id>>
  /\ NoOutput
  /\ UNCHANGED <<frame, form_vars, list_vars, codec_vars, composer_vars>>

\* save_followup without its test of the visit date and the treatment
save_followup_unvalidated(typed) ==
  /\ frame = "add"
  /\ LET data == get_followup_data(typed)
     IN IF current_patient_id = 0
        THEN /\ msg' = <<Box("error", "Error")>>
             /\ UNCHANGED <<visits, last_visit_id, tree_history, backup_vars>>
        ELSE /\ last_visit_id < MaxVisits
             /\ LET visit_id == last_visit_id + 1
                    V == visits @@
                           (visit_id :>
                              [patient_id |-> current_patient_id,
                               visit_date |-> data[1],
                               complaints |-> data[2],
                               new_modalities |-> data[3],
                               treatment |-> data[4]])
                IN /\ visits' = V
                   /\ last_visit_id' = visit_id
                   /\ tree_history' \in HistoryRows(V, current_patient_id)
             /\ msg' = <<Box("info", "Success")>>
             /\ BackupSilently
  /\ NoOutput
  /\ UNCHANGED <<frame, patients, last_patient_id, case_input,
                 current_patient_id, entries, buttons, list_vars, codec_vars, composer_vars>>

\* save_followup; the follow-up form holds the texts typed
save_followup(typed) ==
  /\ frame = "add"
  /\ LET data == get_followup_data(typed)
     IN IF current_patient_id = 0
        THEN /\ msg' = <<Box("error", "Error")>>
             /\ UNCHANGED <<visits, last_visit_id, tree_history, backup_vars>>
        ELSE IF strip(data[1]) = <<>> \/ strip(data[4]) = <<>>
        THEN /\ msg' = <<Box("error", "Error")>>
             /\ UNCHANGED <<visits, last_visit_id, tree_history, backup_vars>>
        ELSE /\ last_visit_id < MaxVisits
             /\ LET visit_id == last_visit_id + 1
                    V == visits @@
                           (visit_id :>
                              [patient_id |-> current_patient_id,
                               visit_date |-> data[1],
                               complaints |-> data[2],
                               new_modalities |-> data[3],
                               treatment |-> data[4]])
                IN /\ visits' = V
                   /\ last_visit_id' = visit_id
                   /\ tree_history' \in HistoryRows(V, current_patient_id)
             /\ msg' = <<Box("info", "Success")>>
             /\ BackupSilently
  /\ NoOutput
  /\ UNCHANGED <<frame, patients, last_patient_id, case_input,
                 current_patient_id, entries, buttons, list_vars, codec_vars, composer_vars>>

\* btn_save_new pressed: the button is gridded in new-patient mode
PressSaveNew == buttons.btn_save_new /\ save_patient

\* btn_update_intake pressed: the button is gridded in edit mode
PressUpdateIntake == buttons.btn_update_intake /\ update_patient_intake

\* btn_save_followup pressed: the button is enabled in edit mode
PressSaveFollowup(typed) ==
  buttons.btn_save_followup = "normal" /\ save_followup(typed)

\* search_patient, the search entry holding query
search_patient(query) ==
  /\ frame = "search"
  /\ LET found == {id \in DOMAIN patients :
                     \/ Like(patients[id]["case_no"], query)
                     \/ Like(patients[id]["name"], query)}
     IN \E o \in OrderByAsc(found, [id \in DOMAIN patients |->
                                        patients[id]["case_no"]]) :
          tree_search' = [i \in DOMAIN o |-> ListRow(patients, o[i])]
  /\ msg' = <<>>
  /\ NoOutput
  /\ UNCHANGED <<frame, db_vars, form_vars, tree_all, paging, codec_vars, composer_vars,
                 backup_vars>>

\* on_tree_double_click on a row of the search list
OpenFromSearch(i) ==
  /\ frame = "search"
  /\ i \in DOMAIN tree_search
  /\ edit_record(patients, visits, tree_search[i].iid, <<>>)
  /\ NoOutput
  /\ UNCHANGED <<db_vars, list_vars, codec_vars, composer_vars,
                 backup_vars>>

\* on_tree_double_click on a row of the all-records list
OpenFromAll(i) ==
  /\ frame = "view_all"
  /\ i \in DOMAIN tree_all
  /\ edit_record(patients, visits, tree_all[i].iid, <<>>)
  /\ NoOutput
  /\ UNCHANGED <<db_vars, list_vars, codec_vars, composer_vars,
                 backup_vars>>

\* the rows of visits left after DELETE FROM visits WHERE patient_id = ?
delete_keeps_visits(V, patient_id) == V

\* the rows left after a DELETE FROM visits without its WHERE
delete_every_visit(V, patient_id) == [v \in {} |-> V[v]]

delete_visits(V, patient_id) ==
  [v \in DOMAIN V \ VisitsOf(V, patient_id) |-> V[v]]

\* delete_patient_record with row i of the search list selected (0: none)
\* and the answer given to the confirmation
delete_patient_record(i, confirm) ==
  /\ frame = "search"
  /\ i \in {0} \cup DOMAIN tree_search
  /\ IF i = 0
     THEN /\ msg' = <<Box("error", "Error")>>
          /\ UNCHANGED <<db_vars, tree_search, backup_vars>>
     ELSE IF ~confirm
     THEN /\ msg' = <<>>
          /\ UNCHANGED <<db_vars, tree_search, backup_vars>>
     ELSE LET patient_id == tree_search[i].iid
          IN /\ visits' = delete_visits(visits, patient_id)
             /\ patients' = Without(patients, patient_id)
             /\ case_input' = Without(case_input, patient_id)
             /\ tree_search' = RemoveAt(tree_search, i)
             /\ msg' = <<Box("info", "Success")>>
             /\ BackupSilently
             /\ UNCHANGED <<last_patient_id, last_visit_id>>
  /\ NoOutput
  /\ UNCHANGED <<frame, form_vars, tree_all, paging, codec_vars, composer_vars>>

\* get_full_patient_data without the unpadding of case_no
get_full_patient_data_padded(P, V, patient_id) ==
  IF patient_id \notin DOMAIN P THEN {<<None, None>>}
  ELSE { <<P[patient_id],
           [i \in DOMAIN o |->
              <<V[o[i]].visit_date, V[o[i]].complaints,
                V[o[i]].new_modalities, V[o[i]].treatment>>]>> :
           o \in OrderByAsc(VisitsOf(V, patient_id),
                            [v \in DOMAIN V |-> V[v].visit_date]) }

\* get_full_patient_data(patient_id): the pairs (intake_data, visit_records)
\* it may return, one for each order the visits query may give
get_full_patient_data(P, V, patient_id) ==
  IF patient_id \notin DOMAIN P THEN {<<None, None>>}
  ELSE { <<[P[patient_id] EXCEPT !["case_no"] = unpad_case_no(@)],
           [i \in DOMAIN o |->
              <<V[o[i]].visit_date, V[o[i]].complaints,
                V[o[i]].new_modalities, V[o[i]].treatment>>]>> :
           o \in OrderByAsc(VisitsOf(V, patient_id),
                            [v \in DOMAIN V |-> V[v].visit_date]) }

\* c.isalnum() or c in (' ', '_')
SafeChars == Digits \cup {"a", "b", " ", "_"}

\* "".join(c for c in patient_name if ...).rstrip()
SafeName(patient_name) ==
  rstrip(SelectSeq(patient_name, LAMBDA c : c \in SafeChars), Whitespace)

\* the end of the export handlers with a failed build reported a second
\* time by the handler
export_to_twice(patient_name, case_no, data, filepath_chosen, build_ok) ==
  /\ default_filename' = <<SafeName(patient_name), case_no>>
  /\ IF ~filepath_chosen
     THEN /\ msg' = <<>>
          /\ p_intake' = None
          /\ p_visits' = None
          /\ pdf_result' = "none"
     ELSE LET r == generate_patient_pdf(data[1], build_ok)
          IN /\ p_intake' = data[1]
             /\ p_visits' = data[2]
             /\ pdf_result' = r.result
             /\ msg' = CASE r.result = "True" ->
                              <<Box("info", "Export Complete")>>
                         [] r.result = "False" ->
                              r.boxes \o <<Box("error", "Export Error")>>
                         [] OTHER -> <<Box("error", "Export Error")>>

\* the end of both export handlers: the save dialog, then the composer
ExportTo(patient_name, case_no, data, filepath_chosen, build_ok) ==
  /\ default_filename' = <<SafeName(patient_name), case_no>>
  /\ IF ~filepath_chosen
     THEN /\ msg' = <<>>
          /\ p_intake' = None
          /\ p_visits' = None
          /\ pdf_result' = "none"
     ELSE LET r == generate_patient_pdf(data[1], build_ok)
          IN /\ p_intake' = data[1]
             /\ p_visits' = data[2]
             /\ pdf_result' = r.result
             /\ msg' = CASE r.result = "True" ->
                              <<Box("info", "Export Complete")>>
                         [] r.result = "False" -> r.boxes
                         [] OTHER -> <<Box("error", "Export Error")>>

\* export_current_patient_to_pdf; filepath_chosen says whether the save
\* dialog returned a path
export_current_patient_to_pdf(filepath_chosen, build_ok) ==
  /\ frame = "add"
  /\ IF current_patient_id = 0
     THEN /\ msg' = <<Box("error", "Export Error")>>
          /\ NoReport
     ELSE IF current_patient_id \notin DOMAIN patients
     THEN /\ msg' = <<Box("error", "Error")>>
          /\ NoReport
     ELSE \E data \in get_full_patient_data(patients, visits,
                                           current_patient_id) :
            ExportTo(patients[current_patient_id]["name"],
                     unpad_case_no(patients[current_patient_id]["case_no"]),
                     data, filepath_chosen, build_ok)
  /\ details_window' = NoWindow
  /\ UNCHANGED <<frame, db_vars, form_vars, list_vars, codec_vars,
                 composer_vars,
                 backup_vars>>

\* export_selected_patient_to_pdf with row i of the search list selected
\* (0: none)
export_selected_patient_to_pdf(i, filepath_chosen, build_ok) ==
  /\ frame = "search"
  /\ i \in {0} \cup DOMAIN tree_search
  /\ IF i = 0
     THEN /\ msg' = <<Box("error", "Export Error")>>
          /\ NoReport
     ELSE \E data \in get_full_patient_data(patients, visits,
                                           tree_search[i].iid) :
            IF data[1] = None
            THEN /\ msg' = <<Box("error", "Error")>>
                 /\ NoReport
            ELSE ExportTo(tree_search[i].values[2], tree_search[i].values[1],
                          data, filepath_chosen, build_ok)
  /\ details_window' = NoWindow
  /\ UNCHANGED <<frame, db_vars, form_vars, list_vars, codec_vars,
                 composer_vars,
                 backup_vars>>

\* on_history_double_click on row i of the history list: view_visit_details
view_visit_details(i) ==
  /\ frame = "add"
  /\ i \in DOMAIN tree_history
  /\ LET visit_id == tree_history[i].iid
     IN IF /\ visit_id \in DOMAIN visits
           /\ visits[visit_id].patient_id \in DOMAIN patients
        THEN LET p == patients[visits[visit_id].patient_id]
             IN /\ details_window' =
                     [open |-> TRUE, patient_name |-> p["name"],
                      case_no |-> unpad_case_no(p["case_no"]),
                      visit_date |-> visits[visit_id].visit_date]
                /\ msg' = <<>>
        ELSE /\ msg' = <<Box("error", "Error")>>
             /\ details_window' = NoWindow
  /\ NoReport
  /\ UNCHANGED <<frame, db_vars, form_vars, list_vars, codec_vars,
                 composer_vars,
                 backup_vars>>

\* ------------------------------------------------------------------------
\* Initial states and specifications
\* ------------------------------------------------------------------------

CodecIdle ==
  /\ c_pc = "idle"
  /\ c_raw = <<>>
  /\ c_enc = None
  /\ c_dec = None
  /\ c_reenc = None
  /\ c_enc2 = None
  /\ c_unpad = None

ComposerIdle ==
  /\ p_pc = "idle"
  /\ p_pages = <<>>
  /\ p_intake = None
  /\ p_visits = None

\* the state the application is in after __init__ on a new database
InitWidgets ==
  /\ frame = "home"
  /\ current_patient_id = 0
  /\ entries = [k \in Range(IntakeKeys) |->
                  IF k = "entry_date" THEN Today ELSE <<>>]
  /\ buttons = [btn_save_new |-> TRUE, btn_update_intake |-> FALSE,
                btn_save_followup |-> "disabled"]
  /\ tree_search = <<>>
  /\ tree_all = <<>>
  /\ paging = [current_page |-> 1, total_records |-> 0, total_pages |-> 1,
               btn_prev |-> "disabled", btn_next |-> "disabled"]
  /\ tree_history = <<>>
  /\ details_window = NoWindow
  /\ default_filename = <<>>
  /\ pdf_result = "none"
  /\ msg = <<>>

\* __init__: init_db, then backup_database(silent=True) into a folder
\* that holds the files named in folder
StartupBackup(folder, timestamp) ==
  /\ backup_files = backup_database(folder, timestamp)
  /\ backup_file = timestamp

\* init_db on a new database file
InitStore ==
  /\ patients = <<>>
  /\ last_patient_id = 0
  /\ visits = <<>>
  /\ last_visit_id = 0
  /\ case_input = <<>>

\* the application started on a new database file
InitApp ==
  /\ StartupBackup({}, Now)
  /\ InitStore
  /\ InitWidgets

\* Spec: the application
Init == InitApp /\ CodecIdle /\ ComposerIdle

Next ==
  \/ \E text \in CaseTexts : TypeCaseNo(text)
  \/ \E text \in NameTexts : TypeName(text)
  \/ AddNewPatient
  \/ ShowSearch
  \/ ViewAllRecords
  \/ BackToHome
  \/ PressSaveNew
  \/ PressUpdateIntake
  \/ \E typed \in FollowupInputs : PressSaveFollowup(typed)
  \/ \E query \in Queries : search_patient(query)
  \/ \E i \in 1..MaxPatients : OpenFromSearch(i)
  \/ \E i \in 1..MaxPatients : OpenFromAll(i)
  \/ \E i \in 0..MaxPatients, confirm \in BOOLEAN :
       delete_patient_record(i, confirm)
  \/ \E i \in 1..MaxVisits : view_visit_details(i)
  \/ \E chosen \in BOOLEAN, build_ok \in BOOLEAN :
       export_current_patient_to_pdf(chosen, build_ok)
  \/ \E i \in 0..MaxPatients, chosen \in BOOLEAN, build_ok \in BOOLEAN :
       export_selected_patient_to_pdf(i, chosen, build_ok)

Spec == Init /\ [][Next]_vars

\* SpecStore: the intake operations, navigation and the lists
NextStore ==
  \/ \E text \in StoreCaseTexts : TypeCaseNo(text)
  \/ \E text \in NameTexts : TypeName(text)
  \/ AddNewPatient
  \/ ShowSearch
  \/ BackToHome
  \/ PressSaveNew
  \/ PressUpdateIntake
  \/ search_patient(<<>>)
  \/ \E i \in 1..MaxPatients : OpenFromSearch(i)

SpecStore == Init /\ [][NextStore]_vars

\* SpecComposer: generate_patient_pdf called with intake mappings (texts
\* empty or not, a key absent, a NULL column, no record at all) and visit
\* lists of at most MaxVisitRecords records
ComposerIntakes ==
  LET full(v) == [c \in Range(Columns) |->
                    IF c = "name" THEN <<"b">>
                    ELSE IF c = "case_no" THEN <<"7">>
                    ELSE v]
  IN {full(<<>>), full(<<"a">>),
      [c \in Range(Columns) \ {"diagnosis"} |-> full(<<"a">>)[c]],
      [full(<<"a">>) EXCEPT !["age"] = None],
      None}

VisitTuples ==
  { <<d, c, <<>>, <<"a">>>> :
      d \in {FormatDate(2, 1, 2024), FormatDate(1, 2, 2024)},
      c \in {<<>>, <<"a">>} }

InitComposer ==
  /\ InitApp
  /\ CodecIdle
  /\ p_pc = "input"
  /\ p_pages = <<>>
  /\ p_intake \in ComposerIntakes
  /\ p_visits \in
       {None} \cup UNION {[1..n -> VisitTuples] : n \in 0..MaxVisitRecords}

\* a call of generate_patient_pdf(p_intake, p_visits, filename)
Compose(build_ok) ==
  /\ p_pc = "input"
  /\ LET r == generate_patient_pdf(p_intake, build_ok)
     IN /\ pdf_result' = r.result
        /\ msg' = r.boxes
  /\ p_pc' = "done"
  /\ UNCHANGED <<frame, db_vars, form_vars, list_vars, details_window,
                 default_filename, codec_vars, p_intake, p_visits,
                 p_pages, backup_vars>>

NextComposer == \E build_ok \in BOOLEAN : Compose(build_ok)

SpecComposer == InitComposer /\ [][NextComposer]_vars

\* SpecTemplate: ReportLabTemplate.build called on the stories of the
\* composer's inputs with every pair of page callbacks
TemplateBuild(onFirstPage, onLaterPages) ==
  /\ p_pc = "input"
  /\ p_intake # None
  /\ ~AssemblyRaises(p_intake)
  /\ p_pages' \in build(ReportLabTemplate, Story(p_intake, p_visits),
                        onFirstPage, onLaterPages)
  /\ p_pc' = "done"
  /\ UNCHANGED <<app_vars, codec_vars, backup_vars>>

NextTemplate ==
  \E onFirstPage \in Callbacks, onLaterPages \in Callbacks :
    TemplateBuild(onFirstPage, onLaterPages)

SpecTemplate == InitComposer /\ [][NextTemplate]_vars

\* SpecFetch: saving, searching and exporting while another instance of the
\* application works on the same database file, and generate_patient_pdf
\* called without an intake record

\* delete_patient_record run by another instance: the rows go, the widgets
\* of this instance stay as they are
OtherInstanceDelete(patient_id) ==
  /\ patient_id \in DOMAIN patients
  /\ visits' = delete_visits(visits, patient_id)
  /\ patients' = Without(patients, patient_id)
  /\ case_input' = Without(case_input, patient_id)
  /\ BackupSilently
  /\ UNCHANGED <<last_patient_id, last_visit_id, frame, form_vars, list_vars,
                 out_vars, msg, codec_vars, composer_vars>>

\* generate_patient_pdf(None, [], filename)
ComposeNoRecord(build_ok) ==
  /\ LET r == generate_patient_pdf(None, build_ok)
     IN /\ pdf_result' = r.result
        /\ msg' = r.boxes
  /\ p_intake' = None
  /\ p_visits' = <<>>
  /\ default_filename' = <<>>
  /\ details_window' = NoWindow
  /\ UNCHANGED <<frame, db_vars, form_vars, list_vars, codec_vars,
                 composer_vars,
                 backup_vars>>

NextFetch ==
  \/ \E text \in CaseTexts : TypeCaseNo(text)
  \/ \E text \in NameTexts : TypeName(text)
  \/ AddNewPatient
  \/ ShowSearch
  \/ BackToHome
  \/ PressSaveNew
  \/ search_patient(<<>>)
  \/ \E i \in 1..MaxPatients : OpenFromSearch(i)
  \/ \E chosen \in BOOLEAN, build_ok \in BOOLEAN :
       export_current_patient_to_pdf(chosen, build_ok)
  \/ \E i \in 0..MaxPatients, chosen \in BOOLEAN, build_ok \in BOOLEAN :
       export_selected_patient_to_pdf(i, chosen, build_ok)
  \/ \E patient_id \in 1..MaxPatients : OtherInstanceDelete(patient_id)
  \/ \E build_ok \in BOOLEAN : ComposeNoRecord(build_ok)

SpecFetch == Init /\ [][NextFetch]_vars

\* SpecPaging: the all-records list over a database file that holds up to
\* MaxRecords patients at start-up

\* the row saved for the patient numbered id in the register
StoredRow(id) ==
  get_patient_data([ClearedEntries EXCEPT
                      !["entry_case_no"] = DecimalRepr(id),
                      !["entry_name"] = <<"b">>])

\* the numbers of rows the file starts with
PagingSizes == 0..MaxRecords

\* the page numbers load_all_records is called with
PageNumbers == -1..(MaxRecords \div RECORDS_PER_PAGE + 3)

InitPaging ==
  /\ \E n \in PagingSizes :
       /\ patients = [id \in 1..n |-> StoredRow(id)]
       /\ last_patient_id = n
       /\ case_input = [id \in 1..n |-> DecimalRepr(id)]
  /\ visits = <<>>
  /\ last_visit_id = 0
  /\ StartupBackup({}, Now)
  /\ InitWidgets
  /\ CodecIdle
  /\ ComposerIdle

\* load_all_records(page_number) called while the list is shown
LoadAllRecords(page_number) ==
  /\ frame = "view_all"
  /\ load_all_records(patients, page_number)
  /\ msg' = <<>>
  /\ NoOutput
  /\ UNCHANGED <<frame, db_vars, form_vars, tree_search, codec_vars,
                 composer_vars,
                 backup_vars>>

NextPaging ==
  \/ ViewAllRecords
  \/ PreviousPage
  \/ NextPage
  \/ BackToHome
  \/ \E page_number \in PageNumbers : LoadAllRecords(page_number)

SpecPaging == InitPaging /\ [][NextPaging]_vars

\* SpecSearch: patients saved with the case numbers of StoreCaseTexts and
\* looked up by the case number the lists show for them

\* search_patient with the shown case number of a stored patient typed
SearchShownCaseNo(id) ==
  /\ id \in DOMAIN patients
  /\ search_patient(unpad_case_no(patients[id]["case_no"]))

NextSearch ==
  \/ \E text \in StoreCaseTexts : TypeCaseNo(text)
  \/ \E text \in NameTexts : TypeName(text)
  \/ AddNewPatient
  \/ ShowSearch
  \/ BackToHome
  \/ PressSaveNew
  \/ search_patient(<<>>)
  \/ \E id \in 1..MaxPatients : SearchShownCaseNo(id)

SpecSearch == Init /\ [][NextSearch]_vars

\* SpecBackup: backup_database called at any second of the wall clock

\* what datetime.now() may give: the clock can be set, so a later call may
\* read an earlier second
Times == 1..MaxTime

InitBackup ==
  /\ \E timestamp \in Times : StartupBackup({}, timestamp)
  /\ InitStore
  /\ InitWidgets
  /\ CodecIdle
  /\ ComposerIdle

\* backup_database(silent) at the second timestamp; source_exists: the
\* database file is there; copy_ok: shutil.copyfile does not raise
BackupDatabase(silent, timestamp, source_exists, copy_ok) ==
  /\ IF ~source_exists
     THEN /\ msg' = IF silent THEN <<>>
                    ELSE <<Box("error", "Backup Error")>>
          /\ UNCHANGED backup_vars
     ELSE IF ~copy_ok
     THEN /\ msg' = <<Box("error", "Backup Error")>>
          /\ UNCHANGED backup_vars
     ELSE /\ backup_files' = backup_database(backup_files, timestamp)
          /\ backup_file' = timestamp
          /\ msg' = IF silent THEN <<>>
                    ELSE <<Box("info", "Backup Success")>>
  /\ NoOutput
  /\ UNCHANGED <<frame, db_vars, form_vars, list_vars, codec_vars,
                 composer_vars>>

NextBackup ==
  \E silent \in BOOLEAN, timestamp \in Times,
     source_exists \in BOOLEAN, copy_ok \in BOOLEAN :
    BackupDatabase(silent, timestamp, source_exists, copy_ok)

SpecBackup == InitBackup /\ [][NextBackup]_vars

\* SpecCalls: the three saving methods called whatever the buttons show
NextCalls ==
  \/ \E text \in CallCaseTexts : TypeCaseNo(text)
  \/ \E text \in NameTexts : TypeName(text)
  \/ AddNewPatient
  \/ ShowSearch
  \/ BackToHome
  \/ save_patient
  \/ update_patient_intake
  \/ \E typed \in FollowupInputs : save_followup(typed)
  \/ search_patient(<<>>)
  \/ \E i \in 1..MaxPatients : OpenFromSearch(i)
  \/ \E i \in 1..MaxPatients : delete_patient_record(i, TRUE)

SpecCalls == Init /\ [][NextCalls]_vars

\* SpecCodec: the codec applied to every text of at most MaxLen characters
InitCodec ==
  /\ InitApp
  /\ ComposerIdle
  /\ c_pc = "input"
  /\ c_raw \in TextsUpTo(MaxLen) \cup LegacyTexts \cup {None}
  /\ c_enc = None
  /\ c_dec = None
  /\ c_reenc = None
  /\ c_enc2 = None
  /\ c_unpad = None

\* a save: the form's text is encoded (a widget holds a text, never None)
CodecEncode ==
  /\ c_pc = "input"
  /\ c_raw # None
  /\ c_enc' = encode(c_raw)
  /\ c_pc' = "encoded"
  /\ UNCHANGED <<c_raw, c_dec, c_reenc, c_enc2, c_unpad, app_vars, composer_vars,
                 backup_vars>>

\* a display of the value just stored
CodecDecode ==
  /\ c_pc = "encoded"
  /\ c_dec' = unpad_case_no(c_enc)
  /\ c_pc' = "decoded"
  /\ UNCHANGED <<c_raw, c_enc, c_reenc, c_enc2, c_unpad, app_vars, composer_vars,
                 backup_vars>>

\* the displayed value saved back
CodecReencode ==
  /\ c_pc = "decoded"
  /\ c_reenc' = encode(c_dec)
  /\ c_pc' = "done"
  /\ UNCHANGED <<c_raw, c_enc, c_dec, c_enc2, c_unpad, app_vars, composer_vars,
                 backup_vars>>

\* a display of c_raw taken as a value found in the store
CodecUnpadStored ==
  /\ c_pc = "input"
  /\ c_unpad = None
  /\ c_unpad' = unpad_case_no(c_raw)
  /\ UNCHANGED <<c_pc, c_raw, c_enc, c_dec, c_reenc, c_enc2, app_vars, composer_vars,
                 backup_vars>>

\* the stored value saved again as it is
CodecEncodeStored ==
  /\ c_enc # None
  /\ c_enc2 = None
  /\ c_enc2' = encode(c_enc)
  /\ UNCHANGED <<c_pc, c_raw, c_enc, c_dec, c_reenc, c_unpad, app_vars, composer_vars,
                 backup_vars>>

NextCodec ==
  \/ CodecEncode
  \/ CodecDecode
  \/ CodecReencode
  \/ CodecEncodeStored
  \/ CodecUnpadStored

SpecCodec == InitCodec /\ [][NextCodec]_vars

\* ------------------------------------------------------------------------
\* Properties of the codec (SpecCodec)
\* ------------------------------------------------------------------------

Max(a, b) == IF a >= b THEN a ELSE b

\* the digits of a text, in order
DigitsOf(s) == SelectSeq(s, LAMBDA c : c \in Digits)

\* a text without its leading and trailing white space
Trimmed(s) ==
  LET ij == CHOOSE p \in (1..(Len(s) + 1)) \X (0..Len(s)) :
              /\ \A k \in 1..(p[1] - 1) : s[k] \in Whitespace
              /\ \A k \in (p[2] + 1)..Len(s) : s[k] \in Whitespace
              /\ \/ p[1] > p[2]
                 \/ (s[p[1]] \notin Whitespace /\ s[p[2]] \notin Whitespace)
              /\ p[1] > p[2] => p = <<Len(s) + 1, Len(s)>>
  IN SubSeq(s, ij[1], ij[2])

\* d with zeros put before it up to width w
LeftPadded(d, w) ==
  LET n == Max(Len(d), w)
  IN [i \in 1..n |-> IF i <= n - Len(d) THEN "0" ELSE d[i - (n - Len(d))]]

\* the number of zeros a text starts with
LeadingZeros(s) ==
  CHOOSE k \in 0..Len(s) :
    /\ \A i \in 1..k : s[i] = "0"
    /\ k = Len(s) \/ s[k + 1] # "0"

\* one or more zeros followed by at least one digit, and nothing else
LooksPadded(s) ==
  /\ Len(s) >= 2
  /\ s[1] = "0"
  /\ \A i \in 1..Len(s) : s[i] \in Digits

\* C1: for every input that is not empty once trimmed, encode drops every
\* non-digit character; if a digit remains the result is the digits padded
\* on the left with '0' to width 5, and if none remains it is the trimmed
\* input.
C1_EncodeContract ==
  (c_enc # None /\ Trimmed(c_raw) # <<>>) =>
     IF DigitsOf(c_raw) # <<>>
     THEN c_enc = LeftPadded(DigitsOf(c_raw), 5)
     ELSE c_enc = Trimmed(c_raw)

\* a mixed input whose digits were extracted and padded
C1_Witness ==
  /\ c_enc # None
  /\ DigitsOf(c_raw) # <<>>
  /\ DigitsOf(c_raw) # Trimmed(c_raw)
  /\ Len(DigitsOf(c_raw)) < 5
  /\ c_enc = LeftPadded(DigitsOf(c_raw), 5)

\* C2: decode of a value made of one or more leading zeros followed by at
\* least one digit is the value without its leading zeros, or "0" when
\* nothing is left; every other value is returned unchanged.
C2_DecodeContract ==
  (c_unpad # None /\ c_raw # None) =>
     IF LooksPadded(c_raw)
     THEN LET rest == SubSeq(c_raw, LeadingZeros(c_raw) + 1, Len(c_raw))
          IN c_unpad = (IF rest = <<>> THEN <<"0">> ELSE rest)
     ELSE c_unpad = c_raw

\* an all-zero value decoded to "0"
C2_Witness ==
  /\ c_unpad = <<"0">>
  /\ LooksPadded(c_raw)
  /\ LeadingZeros(c_raw) = Len(c_raw)

\* C3: for an input with at least one digit, decode(encode(s)) is the
\* decimal representation without leading zeros of the number its digits
\* form.
C3_DecodeEncode ==
  (c_dec # None /\ DigitsOf(c_raw) # <<>>) =>
     c_dec = DecimalRepr(NumValue(DigitsOf(c_raw)))

\* an input with leading zeros and other characters, decoded after encoding
C3_Witness ==
  /\ c_dec # None
  /\ DigitsOf(c_raw) # <<>>
  /\ DigitsOf(c_raw) # c_raw
  /\ c_dec # DigitsOf(c_raw)
  /\ c_dec # <<"0">>

\* C4: for every x that encode produced, encode(decode(x)) = encode(x):
\* a case number shown in the edit form and saved back is stored as before.
C4_RoundTrip ==
  (c_reenc # None /\ c_enc2 # None) => (c_reenc = c_enc2 /\ c_reenc = c_enc)

\* a text of one or more zeros and nothing else
AllZeros(s) == s # <<>> /\ \A i \in DOMAIN s : s[i] = "0"

\* C18: encode is idempotent: for every input s, encode(encode(s)) equals
\* encode(s); in particular a value that is already a digit string of
\* canonical width (CASE_NO_PADDING_SIZE digits) is left unchanged.
C18_EncodeIdempotent ==
  /\ c_enc2 # None => c_enc2 = c_enc
  /\ (/\ c_enc # None
      /\ Len(c_raw) = CASE_NO_PADDING_SIZE
      /\ DigitsOf(c_raw) = c_raw) => c_enc = c_raw

\* a text with digits and other characters has been encoded twice
C18_Witness ==
  /\ c_enc2 # None
  /\ DigitsOf(c_raw) # <<>>
  /\ DigitsOf(c_raw) # c_raw
  /\ c_enc # c_raw

\* C19: every all-zero input of at most CASE_NO_PADDING_SIZE digits ("0",
\* "000", ...) encodes to "00000", and decode("00000") is "0", never the
\* empty string.
C19_ZeroCase ==
  /\ (/\ AllZeros(c_raw)
      /\ Len(c_raw) <= CASE_NO_PADDING_SIZE) =>
       /\ c_enc # None => c_enc = <<"0", "0", "0", "0", "0">>
       /\ c_dec # None => c_dec = <<"0">>
  /\ (/\ c_raw = <<"0", "0", "0", "0", "0">>
      /\ c_unpad # None) => c_unpad = <<"0">>

\* "000" has been encoded and the stored value decoded
C19_Witness ==
  /\ c_raw = <<"0", "0", "0">>
  /\ c_enc = <<"0", "0", "0", "0", "0">>
  /\ c_dec = <<"0">>

\* C20: encode never truncates: for an input whose digits number
\* CASE_NO_PADDING_SIZE or more, the result is exactly that digit string, so
\* the result's length is never less than the number of digits in the input.
C20_NeverTruncates ==
  c_enc # None =>
    /\ Len(DigitsOf(c_raw)) >= CASE_NO_PADDING_SIZE => c_enc = DigitsOf(c_raw)
    /\ Len(c_enc) >= Len(DigitsOf(c_raw))

\* six digits have been encoded
C20_Witness ==
  /\ c_enc # None
  /\ Len(DigitsOf(c_raw)) > CASE_NO_PADDING_SIZE
  /\ c_enc = c_raw

\* a text with a character that is neither a digit nor white space
HasLetter(s) == \E i \in DOMAIN s : s[i] \notin Digits \cup Whitespace

\* the digits of a text as a number is written: no zeros in front
Unpadded(d) ==
  IF LeadingZeros(d) = Len(d) THEN <<"0">>
  ELSE SubSeq(d, LeadingZeros(d) + 1, Len(d))

\* C21: for an input that mixes letters and digits, encode discards every
\* non-digit character and pads what remains: the identifier "T12" is
\* stored as "00012" (the "T" prefix is lost) and is displayed back as "12".
C21_LettersDiscarded ==
  (c_raw # None /\ HasLetter(c_raw) /\ DigitsOf(c_raw) # <<>>) =>
     /\ c_enc # None =>
          /\ ~HasLetter(c_enc)
          /\ c_enc = LeftPadded(DigitsOf(c_raw), CASE_NO_PADDING_SIZE)
          /\ c_raw = <<"T", "1", "2">> => c_enc = <<"0", "0", "0", "1", "2">>
     /\ c_dec # None =>
          /\ c_dec = Unpadded(DigitsOf(c_raw))
          /\ c_raw = <<"T", "1", "2">> => c_dec = <<"1", "2">>

\* "T12" has been stored and shown again
C21_Witness ==
  /\ c_raw = <<"T", "1", "2">>
  /\ c_enc = <<"0", "0", "0", "1", "2">>
  /\ c_dec = <<"1", "2">>

\* C22: the codec is total: encode and decode return a text value for every
\* input (including empty text, text with no digits, and a null stored
\* value for decode) and never end in an error.
C22_CodecTotal ==
  /\ c_pc \in {"encoded", "decoded", "done"} => c_enc \in Seq(Chars)
  /\ c_pc \in {"decoded", "done"} => c_dec \in Seq(Chars)
  /\ c_pc = "done" => c_reenc \in Seq(Chars)
  /\ c_enc2 # None => c_enc2 \in Seq(Chars)
  /\ c_unpad # None => c_unpad \in Seq(Chars)

\* a null stored value has been decoded to the empty text
C22_Witness ==
  /\ c_raw = None
  /\ c_unpad = <<>>
  /\ c_pc = "input"

\* ------------------------------------------------------------------------
\* Properties of the stored case numbers (SpecStore)
\* ------------------------------------------------------------------------

\* a text that, once trimmed, is one or more digits and nothing else
PurelyNumeric(s) ==
  /\ Trimmed(s) # <<>>
  /\ \A i \in DOMAIN Trimmed(s) : Trimmed(s)[i] \in Digits

\* a text of digits only
IsDecimal(s) == \A i \in DOMAIN s : s[i] \in Digits

\* the number shown for a stored case number
ShownNumber(stored) == NumValue(unpad_case_no(stored))

\* the rows of a list are the rows a listing of the store makes now
RowsCurrent(tree) ==
  \A i \in DOMAIN tree :
    /\ tree[i].iid \in DOMAIN patients
    /\ tree[i] = ListRow(patients, tree[i].iid)

\* C5: for any two patients whose case numbers were saved from input with
\* a digit, the stored case_no values are in the same string order as the
\* numbers shown for them, and a search list made by ORDER BY case_no ASC
\* of such patients is in ascending numeric order.
C5_LexicalIsNumeric ==
  /\ \A p, q \in DOMAIN patients :
       (DigitsOf(case_input[p]) # <<>> /\ DigitsOf(case_input[q]) # <<>>) =>
          (LexLess(patients[p]["case_no"], patients[q]["case_no"])
             <=> ShownNumber(patients[p]["case_no"])
                   < ShownNumber(patients[q]["case_no"]))
  /\ (/\ RowsCurrent(tree_search)
      /\ \A i \in DOMAIN tree_search :
           DigitsOf(case_input[tree_search[i].iid]) # <<>>)
       => \A i, j \in DOMAIN tree_search :
            i < j => NumValue(tree_search[i].values[1])
                       <= NumValue(tree_search[j].values[1])

\* C6 as stated: every stored case_no that came from purely numeric input
\* is a decimal string of exactly 5 characters, and every stored case_no
\* that came from input without digits is that input trimmed.
C6_ExactlyFive ==
  \A p \in DOMAIN patients :
    /\ PurelyNumeric(case_input[p]) =>
         (IsDecimal(patients[p]["case_no"])
            /\ Len(patients[p]["case_no"]) = 5)
    /\ DigitsOf(case_input[p]) = <<>> =>
         patients[p]["case_no"] = Trimmed(case_input[p])

\* C6: after save_patient and update_patient_intake, every stored case_no
\* that came from purely numeric input is a decimal string whose length is
\* the larger of 5 and the number of digits typed (exactly 5 characters
\* when at most 5 digits were typed, the typed digits when more), and every
\* stored case_no that came from input without digits is that input
\* trimmed.
C6_AtLeastFive ==
  \A p \in DOMAIN patients :
    /\ PurelyNumeric(case_input[p]) =>
         /\ IsDecimal(patients[p]["case_no"])
         /\ Len(patients[p]["case_no"]) = Max(5, Len(Trimmed(case_input[p])))
         /\ Len(Trimmed(case_input[p])) <= 5 =>
              Len(patients[p]["case_no"]) = 5
         /\ Len(Trimmed(case_input[p])) > 5 =>
              patients[p]["case_no"] = Trimmed(case_input[p])
    /\ DigitsOf(case_input[p]) = <<>> =>
         patients[p]["case_no"] = Trimmed(case_input[p])

\* one patient whose short number was padded, another whose case number
\* came from a text without digits typed with a space
C6_Witness ==
  \E p, q \in DOMAIN patients :
    /\ PurelyNumeric(case_input[p])
    /\ Len(Trimmed(case_input[p])) < 5
    /\ Len(patients[p]["case_no"]) = 5
    /\ DigitsOf(case_input[q]) = <<>>
    /\ case_input[q] # Trimmed(case_input[q])
    /\ patients[q]["case_no"] = Trimmed(case_input[q])

\* ------------------------------------------------------------------------
\* Properties of the application (Spec)
\* ------------------------------------------------------------------------

\* the title paragraph of a report for a patient name and a case number
ReportTitle(name, case_no) ==
  <<"<b>PATIENT INTAKE RECORD:</b> <font color='#0a2859'>">>
    \o name \o <<"</font> (Case No: ">> \o case_no \o <<")">>

\* the store holds encode(text typed) for every patient
WritesEncoded ==
  \A p \in DOMAIN patients :
    patients[p]["case_no"] = encode(case_input[p])

\* the rows of a list show the decoded case numbers of the rows stored
RowsDecoded(tree) ==
  \A i \in DOMAIN tree :
    /\ tree[i].iid \in DOMAIN patients
    /\ tree[i].values[1] = unpad_case_no(patients[tree[i].iid]["case_no"])

\* an open visit-details window shows the decoded case number of the
\* patient of a stored visit of that date
DetailsDecoded ==
  details_window.open =>
    \E v \in DOMAIN visits :
      /\ visits[v].patient_id \in DOMAIN patients
      /\ details_window.visit_date = visits[v].visit_date
      /\ details_window.case_no =
           unpad_case_no(patients[visits[v].patient_id]["case_no"])

\* a composed report is the report of a stored patient with the case number
\* decoded, in the data handed over and in the title paragraph
ReportDecoded ==
  pdf_result \in {"True", "False"} =>
    LET title == story[2].text
    IN \E p \in DOMAIN patients :
         /\ p_intake =
              [patients[p] EXCEPT !["case_no"] = unpad_case_no(@)]
         /\ title = ReportTitle(patients[p]["name"],
                                unpad_case_no(patients[p]["case_no"]))

\* the default file name carries the decoded case number: of the patient
\* being edited, or the one the selected row of the search list shows
FilenameDecoded ==
  default_filename # <<>> =>
    IF frame = "add"
    THEN /\ current_patient_id \in DOMAIN patients
         /\ default_filename[2] =
              unpad_case_no(patients[current_patient_id]["case_no"])
    ELSE \E i \in DOMAIN tree_search :
           default_filename[2] = tree_search[i].values[1]

\* a step that fills the search list or the all-records list
ListsDecoded ==
  /\ (\E query \in Queries : search_patient(query)) => RowsDecoded(tree_search)'
  /\ ViewAllRecords => RowsDecoded(tree_all)'

\* a step that loads a patient into the edit form: a double click on a
\* list row that finds the patient, or a save of a new patient
EditFormDecoded ==
  (\/ (frame \in {"search", "view_all"} /\ frame' = "add")
   \/ last_patient_id' # last_patient_id)
    => /\ current_patient_id' \in DOMAIN patients'
       /\ entries'["entry_case_no"] =
            unpad_case_no(patients'[current_patient_id']["case_no"])

C8_VisitsHavePatients ==
  \A v \in DOMAIN visits : visits[v].patient_id \in DOMAIN patients

\* a patient with a visit was deleted and its visit with it, while another
\* patient keeps a visit
C8_Witness ==
  /\ last_patient_id = 2
  /\ Cardinality(DOMAIN patients) = 1
  /\ last_visit_id = 2
  /\ Cardinality(DOMAIN visits) = 1

\* the day count a "dd-mm-YYYY" text orders by
DateKey(text) ==
  NumValue(SubSeq(text, 7, 10)) * 10000
    + NumValue(SubSeq(text, 4, 5)) * 100
    + NumValue(SubSeq(text, 1, 2))

\* C9: the visit sequence get_full_patient_data hands to the report
\* composer is in chronological order, oldest visit first.
C9_OldestFirst ==
  pdf_result # "none" =>
    \A i, j \in DOMAIN p_visits :
      i < j => DateKey(p_visits[i][1]) <= DateKey(p_visits[j][1])

\* ------------------------------------------------------------------------
\* Properties of the composer (SpecComposer)
\* ------------------------------------------------------------------------

\* the positions of the forced page breaks of a story
PageBreaks(flowables) ==
  {k \in DOMAIN flowables : flowables[k].t = "PageBreak"}

\* the heading of the i-th visit block
VisitHeading(i, date) ==
  <<"Visit ">> \o DecimalRepr(i) \o <<": <font color='black'>">> \o date
    \o <<"</font>">>

\* C10: given a non-empty visit list, the composed document has exactly
\* one forced page break, after the intake sections and before the
\* visit-history title, followed by one visit block per input record in
\* input order, the i-th headed "Visit i: <date of the i-th record>"; no
\* visit is reordered and no break is forced between visits.
C10_VisitSection ==
  (/\ p_pc = "done"
   /\ pdf_result \in {"True", "False"}
   /\ p_visits # None
   /\ p_visits # <<>>) =>
    LET n == Len(p_visits)
        k == Len(IntakeStory(p_intake)) + 1
    IN /\ PageBreaks(story) = {k}
       /\ SubSeq(story, 1, k - 1) = IntakeStory(p_intake)
       /\ story[k + 1].t = "Paragraph"
       /\ story[k + 1].text = <<"<u>VISIT HISTORY / FOLLOW-UPS</u>">>
       /\ Len(story) = k + 2 + 3 * n
       /\ {j \in DOMAIN story : story[j].style = "H_VISIT"}
            = {k + 3 * i : i \in 1..n}
       /\ \A i \in 1..n :
            /\ story[k + 3 * i].text = VisitHeading(i, p_visits[i][1])
            /\ story[k + 3 * i + 1].t = "Table"
            /\ story[k + 3 * i + 1].cells[1][2].text
                 = (IF p_visits[i][2] = <<>> THEN NA ELSE p_visits[i][2])
            /\ story[k + 3 * i + 1].cells[3][2].text = p_visits[i][4]
            /\ story[k + 3 * i + 2].t = "Spacer"

\* a document composed from three visits whose dates are not in
\* chronological order
C10_Witness ==
  /\ p_pc = "done"
  /\ pdf_result = "True"
  /\ p_visits # None
  /\ Len(p_visits) = 3
  /\ DateKey(p_visits[1][1]) > DateKey(p_visits[2][1])
  /\ Len(story) = Len(IntakeStory(p_intake)) + 12

\* the composer has built a story
Composed == p_pc = "done" /\ pdf_result \in {"True", "False"}

\* the texts of all paragraphs of a story, those in table cells included
ParagraphTexts(flowables) ==
  {flowables[k].text : k \in {j \in DOMAIN flowables :
                               flowables[j].t = "Paragraph"}}
  \cup UNION {UNION {{flowables[k].cells[r][c].text :
                        c \in DOMAIN flowables[k].cells[r]} :
                     r \in DOMAIN flowables[k].cells} :
              k \in {j \in DOMAIN flowables : flowables[j].t = "Table"}}

\* C11: given an empty visit list, the composed document has no
\* visit-history title, no visit block and no forced page break.
C11_NoVisitSection ==
  (Composed /\ (p_visits = <<>> \/ p_visits = None)) =>
    /\ PageBreaks(story) = {}
    /\ <<"<u>VISIT HISTORY / FOLLOW-UPS</u>">> \notin ParagraphTexts(story)
    /\ \A k \in DOMAIN story : story[k].style # "H_VISIT"
    /\ story = IntakeStory(p_intake)

\* a document composed from an intake record and an empty visit list
C11_Witness ==
  /\ Composed
  /\ p_visits = <<>>
  /\ pdf_result = "True"
  /\ Len(story) > 0

\* the field of an intake mapping is absent or empty
Blank(d, key) == key \notin DOMAIN d \/ d[key] = <<>>

\* the text a story shows for the intake field key
RenderedField(flowables, key) ==
  CASE key = "date" -> flowables[5].cells[1][2].text
    [] key = "age" -> flowables[5].cells[1][4].text
    [] key = "name" -> flowables[5].cells[2][2].text
    [] key = "gender" -> flowables[5].cells[2][4].text
    [] key = "address" -> flowables[5].cells[3][2].text
    [] key = "co" -> flowables[8].text
    [] key = "onset_duration" -> flowables[10].text
    [] key = "habit" -> flowables[12].cells[1][2].text
    [] key = "diet" -> flowables[12].cells[1][4].text
    [] key = "appetite" -> flowables[12].cells[2][2].text
    [] key = "bowel" -> flowables[12].cells[2][4].text
    [] key = "family_history" -> flowables[15].text
    [] key = "past_history" -> flowables[17].text
    [] key = "mind" -> flowables[19].cells[1][2].text
    [] key = "sleep" -> flowables[19].cells[1][4].text
    [] key = "desire" -> flowables[19].cells[2][2].text
    [] key = "aversion" -> flowables[19].cells[2][4].text
    [] key = "wt" -> flowables[22].cells[1][2].text
    [] key = "bp" -> flowables[22].cells[1][4].text
    [] key = "pulse" -> flowables[22].cells[2][2].text
    [] key = "temp" -> flowables[22].cells[2][4].text
    [] key = "systemic_exam" -> flowables[25].text
    [] key = "modalities_pe" -> flowables[27].text
    [] key = "diagnosis" -> flowables[29].text
    [] key = "treatment" -> flowables[31].text

\* the intake fields the report shows in a cell or a block of their own
ReportFields == Range(Columns) \ {"case_no"}

\* C12: in the composed report every intake field and every visit field
\* whose value is missing or empty renders as "N/A", never as blank, for
\* all fields alike.
C12_PlaceholderEverywhere ==
  Composed =>
    /\ \A key \in ReportFields :
         Blank(p_intake, key) => RenderedField(story, key) = NA
    /\ p_visits # None =>
         \A i \in DOMAIN p_visits :
           \A f \in 2..4 :
             p_visits[i][f] = <<>> =>
               story[Len(IntakeStory(p_intake)) + 1 + 3 * i + 1]
                 .cells[f - 1][2].text = NA

\* C13: when the intake mapping has no key 'diagnosis', the Diagnosis block
\* of the report holds "N/A" and composition does not fail for the missing
\* key.
C13_MissingDiagnosis ==
  (p_pc = "done" /\ p_intake # None /\ "diagnosis" \notin DOMAIN p_intake) =>
    /\ pdf_result \in {"True", "False"}
    /\ story[28] = SectionHeading("Diagnosis")
    /\ story[29].t = "Paragraph"
    /\ story[29].text = NA

\* a document composed from an intake mapping without 'diagnosis'
C13_Witness ==
  /\ p_pc = "done"
  /\ p_intake # None
  /\ "diagnosis" \notin DOMAIN p_intake
  /\ "treatment" \in DOMAIN p_intake
  /\ pdf_result = "True"

\* C14: every failure during composition, while assembling the content as
\* well as while laying out and writing the document, is caught inside
\* generate_patient_pdf and turned into the result False; no exception
\* leaves the call.
C14_FailuresCaught ==
  p_pc = "done" =>
    /\ pdf_result \in {"True", "False"}
    /\ (p_intake = None \/ AssemblyRaises(p_intake)) => pdf_result = "False"

\* C16: when the destination cannot be written, the generate_patient_pdf
\* call returns a failure result that carries a non-empty cause string, and
\* no file is left at the destination.
C16_FailureCarriesCause ==
  (Composed /\ pdf_result = "False") =>
    /\ CauseCarried(pdf_result) # <<>>
    /\ ~FileWritten(pdf_result)

\* ------------------------------------------------------------------------
\* Properties of the export flows (Spec)
\* ------------------------------------------------------------------------

\* a call of one of the two export handlers
ExportStep ==
  \/ \E chosen \in BOOLEAN, build_ok \in BOOLEAN :
       export_current_patient_to_pdf(chosen, build_ok)
  \/ \E i \in 0..MaxPatients, chosen \in BOOLEAN, build_ok \in BOOLEAN :
       export_selected_patient_to_pdf(i, chosen, build_ok)

\* the save dialog was opened and closed without a path: nothing exported
Cancelled == default_filename # <<>> /\ pdf_result = "none"

\* what an export call has shown: one success box and no error after a
\* document was written, one error box and no success after a failure,
\* nothing after a cancelled dialog
OneNotification ==
  IF pdf_result = "True"
  THEN msg = <<Box("info", "Export Complete")>>
  ELSE IF Cancelled
  THEN msg = <<>>
  ELSE /\ Len(msg) = 1
       /\ msg[1].kind = "error"

\* C15: in both export flows every failed export produces exactly one
\* error notification and no success notification, and every successful
\* export exactly one success notification and no error notification.
C15_OneNotificationPerExport == [][ExportStep => OneNotification']_vars

\* an export from the search list whose build failed, reported once
C15_Witness ==
  /\ frame = "search"
  /\ pdf_result = "False"
  /\ p_intake # None
  /\ msg = <<Box("error", "PDF Build Error")>>

\* ------------------------------------------------------------------------
\* Properties of exports without a record (SpecFetch)
\* ------------------------------------------------------------------------

\* no document is composed without an intake record: such a call ends
\* before a story exists
NoRecordNoDocument ==
  /\ pdf_result \in {"True", "False"} => p_intake # None
  /\ (pdf_result # "none" /\ p_intake = None) =>
       (pdf_result = "raised" /\ story = <<>> /\ ~FileWritten(pdf_result))

\* one error box and no document
ErrorAndNoDocument ==
  /\ Len(msg) = 1
  /\ msg[1].kind = "error"
  /\ ~FileWritten(pdf_result)
  /\ story = <<>>

\* an export of a patient whose row is not in the store shows an error
UnfetchedEndsInError ==
  /\ (/\ current_patient_id # 0
      /\ current_patient_id \notin DOMAIN patients
      /\ \E chosen \in BOOLEAN, build_ok \in BOOLEAN :
           export_current_patient_to_pdf(chosen, build_ok))
       => ErrorAndNoDocument'
  /\ \A i \in DOMAIN tree_search :
       (/\ tree_search[i].iid \notin DOMAIN patients
        /\ \E chosen \in BOOLEAN, build_ok \in BOOLEAN :
             export_selected_patient_to_pdf(i, chosen, build_ok))
         => ErrorAndNoDocument'

\* C17: no document is rendered for a null or absent intake record:
\* generate_patient_pdf called with a null intake mapping fails before any
\* document is built, and in both export flows a patient that cannot be
\* fetched ends in an error notification with no document written.
C17_NoDocumentWithoutRecord ==
  /\ []NoRecordNoDocument
  /\ [][UnfetchedEndsInError]_vars

\* the patient shown in the edit form is gone from the store and the
\* export of it has shown an error
C17_Witness ==
  /\ frame = "add"
  /\ current_patient_id # 0
  /\ current_patient_id \notin DOMAIN patients
  /\ msg = <<Box("error", "Error")>>
  /\ pdf_result = "none"
  /\ default_filename = <<>>

\* ------------------------------------------------------------------------
\* Frame effects of the handlers on the two tables (Spec)
\* ------------------------------------------------------------------------

\* the patients a step takes out of the store
DeletedPatients == DOMAIN patients \ DOMAIN patients'

\* the step is a confirmed delete_patient_record
DeleteStep ==
  \E i \in 1..MaxPatients : delete_patient_record(i, TRUE)

\* a visit row present before a step is either there unchanged after it,
\* or gone with its patient in a delete_patient_record
VisitKeptOrCascaded(v) ==
  IF visits[v].patient_id \in DeletedPatients
  THEN DeleteStep /\ v \notin DOMAIN visits'
  ELSE v \in DOMAIN visits' /\ visits'[v] = visits[v]

\* C23: a visit row is immutable once created: no operation changes the
\* fields of an existing visit, and the only operation that removes visit
\* rows is delete_patient_record, which removes exactly the visits of the
\* deleted patient and leaves every other patient's visits unchanged.
C23_VisitsImmutable ==
  [][\A v \in DOMAIN visits : VisitKeptOrCascaded(v)]_vars

\* one patient has been deleted with its visit and the other patient's
\* visit is still in the table
C23_Witness ==
  /\ last_patient_id = 2
  /\ last_visit_id = 2
  /\ Cardinality(DOMAIN patients) = 1
  /\ Cardinality(DOMAIN visits) = 1
  /\ \A v \in DOMAIN visits : visits[v].patient_id \in DOMAIN patients
  /\ msg = <<Box("info", "Success")>>
  /\ frame = "search"

\* the name or the case number typed is empty or white space only
BlankRequired ==
  \/ Trimmed(entries["entry_name"]) = <<>>
  \/ Trimmed(entries["entry_case_no"]) = <<>>

\* what a call of update_patient_intake leaves as it was
UpdateInPlace ==
  /\ visits' = visits
  /\ last_visit_id' = last_visit_id
  /\ DOMAIN patients' = DOMAIN patients
  /\ last_patient_id' = last_patient_id
  /\ \A id \in DOMAIN patients :
       id # current_patient_id => patients'[id] = patients[id]
  /\ (current_patient_id = 0 \/ BlankRequired) => patients' = patients
  /\ current_patient_id' = current_patient_id

\* C24: update_patient_intake mutates in place: it changes only the
\* patients row whose id is current_patient_id, keeps that row's id, leaves
\* the number of patient rows, every other patient row and every visit row
\* unchanged; with no patient loaded (current_patient_id is None) or with a
\* blank name or case number it changes nothing.
C24_UpdateInPlace ==
  [][update_patient_intake => UpdateInPlace]_vars

\* the first of two patients has been updated to texts the second does
\* not have
C24_Witness ==
  /\ frame = "add"
  /\ current_patient_id = 1
  /\ DOMAIN patients = {1, 2}
  /\ last_visit_id = 0
  /\ msg = <<Box("info", "Success")>>
  /\ patients[1] = get_patient_data(entries)
  /\ patients[1] # patients[2]

\* what a call of save_followup with the texts typed does to the visits
FollowupInserted(typed) ==
  IF /\ current_patient_id # 0
     /\ Trimmed(typed[1]) # <<>>
     /\ Trimmed(typed[4]) # <<>>
  THEN /\ Cardinality(DOMAIN visits') = Cardinality(DOMAIN visits) + 1
       /\ \A v \in DOMAIN visits :
            v \in DOMAIN visits' /\ visits'[v] = visits[v]
       /\ \A v \in DOMAIN visits' \ DOMAIN visits :
            visits'[v].patient_id = current_patient_id
  ELSE visits' = visits

\* C27: save_followup inserts a visit only when a patient is loaded
\* (current_patient_id is not None) and both the visit date and the
\* treatment are non-blank; otherwise the visits table is unchanged.  A
\* visit it inserts carries patient_id equal to current_patient_id at the
\* time of the call, and exactly one row is added.
C27_FollowupInsert ==
  [][\A typed \in FollowupInputs :
       save_followup(typed) => FollowupInserted(typed)]_vars

\* a second visit of the loaded patient has been saved
C27_Witness ==
  /\ frame = "add"
  /\ current_patient_id # 0
  /\ msg = <<Box("info", "Success")>>
  /\ Cardinality(DOMAIN visits) = 2
  /\ \A v \in DOMAIN visits : visits[v].patient_id = current_patient_id
  /\ Len(tree_history) = 2

\* ------------------------------------------------------------------------
\* The two modes of the intake form (SpecFetch)
\* ------------------------------------------------------------------------

\* the buttons agree with current_patient_id
ButtonsFollowPatient ==
  /\ (buttons.btn_save_followup = "normal") <=> (current_patient_id # 0)
  /\ buttons.btn_update_intake <=> (current_patient_id # 0)
  /\ buttons.btn_save_new <=> (current_patient_id = 0)

\* edit_record of a patient that is not in the store leaves the mode alone
MissingPatientKeepsMode ==
  \A i \in DOMAIN tree_search :
    (/\ tree_search[i].iid \notin DOMAIN patients
     /\ OpenFromSearch(i))
      => UNCHANGED <<current_patient_id, buttons>>

\* C26: edit-mode invariant: after any sequence of clear_entries,
\* save_patient, edit_record and reset operations, the Save Follow-up
\* button is enabled and the Update Intake button is shown exactly when
\* current_patient_id is not None, and the Save New Patient button is shown
\* exactly when current_patient_id is None; an edit_record call for a
\* patient that does not exist leaves current_patient_id and the buttons
\* unchanged.
C26_EditModeInvariant ==
  /\ []ButtonsFollowPatient
  /\ [][MissingPatientKeepsMode]_vars

\* in edit mode, a row of the search list whose patient is gone has been
\* opened
C26_Witness ==
  /\ frame = "search"
  /\ current_patient_id # 0
  /\ buttons = EditButtons
  /\ msg = <<Box("error", "Error")>>
  /\ \E i \in DOMAIN tree_search : tree_search[i].iid \notin DOMAIN patients
  /\ default_filename = <<>>

\* ------------------------------------------------------------------------
\* Pagination of the all-records list (SpecPaging)
\* ------------------------------------------------------------------------

\* the least k with k * d >= n
CeilDiv(n, d) == CHOOSE k \in 0..n : k * d >= n /\ (k = 0 \/ (k - 1) * d < n)

\* p brought into lo..hi
Clamped(p, lo, hi) == IF p < lo THEN lo ELSE IF p > hi THEN hi ELSE p

\* what paging holds after load_all_records(p) on a store of n rows
PagingAfter(pg, p, n) ==
  IF n > 0
  THEN /\ pg.total_pages = CeilDiv(n, 30)
       /\ pg.current_page = Clamped(p, 1, pg.total_pages)
       /\ (pg.btn_prev = "normal") <=> (pg.current_page > 1)
       /\ (pg.btn_next = "normal") <=> (pg.current_page < pg.total_pages)
  ELSE /\ pg.current_page = 1
       /\ pg.btn_prev = "disabled"
       /\ pg.btn_next = "disabled"

\* every call of load_all_records, direct or from a button, ends as
\* PagingAfter says
LoadsWithinBounds ==
  LET n == Cardinality(DOMAIN patients)
  IN /\ \A p \in PageNumbers :
          LoadAllRecords(p) => PagingAfter(paging', p, n)
     /\ ViewAllRecords => PagingAfter(paging', 1, n)
     /\ PreviousPage =>
          /\ PagingAfter(paging', paging.current_page - 1, n)
          /\ paging'.current_page \in 1..paging'.total_pages
     /\ NextPage =>
          /\ PagingAfter(paging', paging.current_page + 1, n)
          /\ paging'.current_page \in 1..paging'.total_pages

\* C28: pagination bounds: after load_all_records(p) for any integer p,
\* when at least one patient exists current_page equals p clamped to
\* [1, total_pages] with total_pages = ceil(total_records / 30), the
\* Previous button is enabled exactly when current_page > 1 and the Next
\* button exactly when current_page < total_pages; when no patient exists
\* current_page is 1 and both buttons are disabled.  Repeated Previous and
\* Next presses therefore never move current_page outside
\* [1, total_pages].
C28_PaginationBounds == [][LoadsWithinBounds]_vars

\* the last of three pages is shown, with its one row
C28_Witness ==
  /\ frame = "view_all"
  /\ paging.total_pages = 3
  /\ paging.current_page = 3
  /\ paging.btn_next = "disabled"
  /\ paging.btn_prev = "normal"
  /\ Len(tree_all) = paging.total_records - 2 * RECORDS_PER_PAGE

\* ------------------------------------------------------------------------
\* Searching by the shown case number (SpecSearch)
\* ------------------------------------------------------------------------

\* the patients the search list shows
Listed(tree) == {tree[i].iid : i \in DOMAIN tree}

\* C30: for every stored patient, a search_patient query equal to that
\* patient's displayed (decoded) case number returns that patient among
\* the results, although the query text itself is not encoded before being
\* matched against the stored padded form.
C30_FoundByShownCaseNo ==
  [][\A id \in DOMAIN patients :
       search_patient(unpad_case_no(patients[id]["case_no"]))
         => id \in Listed(tree_search')]_vars

\* of two patients the one stored as "00007" is the only one found, by the
\* "7" shown for it
C30_Witness ==
  /\ frame = "search"
  /\ Cardinality(DOMAIN patients) = 2
  /\ Len(tree_search) = 1
  /\ patients[tree_search[1].iid]["case_no"] = <<"0", "0", "0", "0", "7">>
  /\ tree_search[1].values[1] = <<"7">>
  /\ \A id \in DOMAIN patients :
       id # tree_search[1].iid => ~Like(patients[id]["case_no"], <<"7">>)

\* ------------------------------------------------------------------------
\* Retention of the backups (SpecBackup)
\* ------------------------------------------------------------------------

\* the k greatest members of a set of numbers
Greatest(S, k) == {f \in S : Cardinality({g \in S : g > f}) < k}

\* a backup that completes leaves the 10 greatest names of those it found
\* and the one it wrote
KeepsGreatestNames ==
  \A silent \in BOOLEAN, timestamp \in Times :
    BackupDatabase(silent, timestamp, TRUE, TRUE) =>
      backup_files' = Greatest(backup_files \cup {timestamp}, 10)

\* C29: backup retention: after every backup_database call that completes
\* without error, the backup folder holds at most 10 files named
\* patients_backup_*.db, they are the 10 with the greatest timestamped
\* names (the newest), and the backup just written is among them.
C29_BackupRetention ==
  /\ [](Cardinality(backup_files) <= 10 /\ backup_file \in backup_files)
  /\ [][KeepsGreatestNames]_vars

\* ------------------------------------------------------------------------
\* Header and footer of every page
\* ------------------------------------------------------------------------

\* the header block of the clinic's reports
ClinicHeader ==
  << << <<"<font size='20'><b>",
          <<"S", "H", "R", "A", "D", "H", "A", " ", "H", "O", "M", "O", "E",
            "O", " ", "C", "L", "I", "N", "I", "C">>,
          "</b></font>">>,
        <<"">> >>,
     << <<"<b>", "Dr. Ramesh Ramrao Mustare", "</b>, ",
          "D.H.M.S., C.C.M.P.(C.C.H.)">>,
        <<"">> >>,
     << <<"Kamtha(BK), Tq Ardhapur, Dist Nanded, 431704">>,
        <<"Reg. No: 20702">> >>,
     << <<"Contact: +91 9420911808 ">>, <<"">> >> >>

\* C25: every page of a built report, the first and every later one, has
\* the same header block and the footer "Page n", n the page's number
\* counted from 1, whatever page callbacks were passed to build
C25_HeaderFooterEveryPage ==
  (p_pc = "done" /\ p_pages # <<>>) =>
    \A n \in DOMAIN p_pages :
      /\ p_pages[n].header = ClinicHeader
      /\ p_pages[n].footer = <<"P", "a", "g", "e", " ">> \o DecimalRepr(n)

\* a report of a patient with visits, built over three pages or more
C25_Witness ==
  /\ p_pc = "done"
  /\ p_visits # None
  /\ Len(p_visits) >= 1
  /\ Len(p_pages) >= 3
  /\ p_pages[3].header = ClinicHeader

====
